---- MODULE Spec2Model ----
(***************************************************************************)
(* Session engine of the flashcard program (src/flashcards.py): the raw    *)
(* key decoder get_key, the quit phrase detector check_for_quit and the    *)
(* requeue scheduler run_quiz.                                             *)
(*                                                                         *)
(* Characters are code points (ord).  Time is counted in ticks of 50 ms.   *)
(***************************************************************************)
EXTENDS Integers, Sequences, FiniteSets, TLC

\* ------------------------------------------------------------------------
\* Bounds of the model
\* ------------------------------------------------------------------------
MaxChar == 129          \* first characters range over 0..MaxChar
MaxTail == 3            \* bytes that follow the first byte of a stream
MaxDeck == 3            \* deck sizes with every shuffle outcome
MaxIncorrect == 2       \* incorrect judgments per session
LongDeck == 6           \* a deck long enough for repeats to come due
MaxCount == 12          \* counters are told apart up to this value
SmallDeck == 2          \* deck sizes of the sessions with any number of misses
MaxStream == 3          \* bytes a stream that stops still sends
MaxPending == 2         \* bytes that wait unread at one time
MaxCards == 5           \* cards of a practice session
ScanDeck == 10          \* items of the deck of the sessions whose due scan is checked
FileLen == 3            \* words of the file of the practice sessions whose order is checked
MaxGroup == 2           \* groups of that file

\* ------------------------------------------------------------------------
\* Program constants
\* ------------------------------------------------------------------------
ESC == 27               \* '\x1b'
SPACE == 32             \* ' '
CTRL_LIMIT == 32        \* ord(ch) < 32
ESC_PASSES == 3         \* for _ in range(3)
ESC_POLL == 3           \* select timeout 0.15 s
CTRL_POLL == 1          \* select timeout 0.05 s
QUIT_TIMEOUT == 20      \* time.time() + 1.0
QUIT_LEN == 4           \* len(buffer) < 4

\* values that are not characters
EOF == 0 - 1            \* sys.stdin.read(1) returned ''
None == 0 - 2           \* Python None
Raised == 0 - 3         \* an exception left the function

\* 'qQxX0123456789pdwmsPDWMSuUiItTbBhH' and ' '
Recognized ==
    {SPACE, 113, 81, 120, 88} \cup (48..57)
    \cup {112, 100, 119, 109, 115, 80, 68, 87, 77, 83}
    \cup {117, 85, 105, 73, 116, 84, 98, 66, 104, 72}

KEY_q == 113
KEY_u == 117
KEY_i == 105
KEY_t == 116
KEY_x == 120
KEY_T == 84
KEY_Q == 81
KEY_b == 98
QUIT == <<KEY_q, KEY_u, KEY_i, KEY_t>>

\* str.lower() on the characters get_key can return
lower(c) == IF c \in 65..90 THEN c + 32 ELSE c

\* a deck test that never finds the deck empty
no_words_never(deck) == deck # deck

\* if not quiz_words / if not practice_words
no_words(deck) == deck = <<>>

\* a None test that lets None through
is_none_never(key) == key # key

\* if key is None
is_none(key) == key = None

Max(a, b) == IF a >= b THEN a ELSE b
Min(a, b) == IF a <= b THEN a ELSE b

VARIABLES
    \* ---- terminal and decoder ----
    input,          \* the whole byte stream: sequence of [ch, at, id]
    tty,            \* bytes not yet read from the file descriptor
    pybuf,          \* characters held in sys.stdin's own buffer
    clock,          \* time.time(), in ticks
    ret,            \* what the last get_key call returned
    firstch,        \* the character the last get_key call read first
    quitret,        \* what the last check_for_quit call returned
    quitlog,        \* record of the last check_for_quit call
    returned,       \* ids of the bytes get_key has returned as keys
    escPending,     \* ids of the bytes that were pending behind an ESC
    kpc,            \* position of the caller of the decoder
    \* ---- run_quiz ----
    quiz_words,     \* the filtered deck, in file order
    front,          \* front[w]: the identity (pinyin) of item w
    queue,          \* MainQueue: sequence of [w, streak]
    repeat_words,   \* RepeatRegistry: [key, w, streak, pos] in insertion order
    position,
    correct_count,
    incorrect_count,
    word,           \* the item on screen
    needed_correct, \* its required streak
    pending,        \* the drain round's list of [w, streak]
    pidx,           \* index in pending of the item on screen
    score,          \* the show_final_score calls made
    pc,             \* position in run_quiz
    judged,         \* the last judgment: "none", "correct", "incorrect"
    shown,          \* shown[w]: how often item w was presented
    missDue,        \* missDue[w]: due position given at w's last miss
    retired0,       \* items judged correct while their streak was 0
    tally,          \* tally[w]: correct judgments of w since its last miss
    lastAt,         \* lastAt[w]: position at the last judgment of w in the main loop
    sink,           \* the results file: the calls that wrote to it, counted,
                    \* and the word of the last row of save_result
    \* ---- run_practice ----
    practice_words, \* the filtered deck, sorted: places in the file of words
    group,          \* group[w]: the group of the word at place w of the file
    pseen,          \* the cards shown so far, while the user only goes forward
    i,              \* the cursor
    current_num,    \* number of the card on screen
    ppc,            \* position in run_practice
    pkey,           \* the key the last step of run_practice acted on
    phist,          \* the keys acted on so far, while they follow Scenario
    \* ---- get_key, statement by statement ----
    dpc,            \* position in get_key
    dfirst,         \* the character read first
    dpass,          \* passes of the escape drain that are over
    dfd,            \* bytes waiting on the file descriptor
    dbuf,           \* characters in sys.stdin's buffer
    dleft           \* bytes the stream still sends; Endless: it never stops

kvars == <<input, tty, pybuf, clock, ret, firstch, quitret, quitlog,
           returned, escPending, kpc>>

qvars == <<quiz_words, front, queue, repeat_words, position, correct_count,
           incorrect_count, word, needed_correct, pending, pidx, score, pc,
           judged, shown, missDue, retired0, tally, lastAt>>

pvars == <<practice_words, group, pseen, i, current_num, ppc, pkey, phist>>

dvars == <<dpc, dfirst, dpass, dfd, dbuf, dleft>>

vars == <<kvars, qvars, pvars, dvars, sink>>

\* ------------------------------------------------------------------------
\* Terminal: the state of standard input as get_key sees it
\*   tty    bytes the file descriptor has not delivered yet, each with the
\*          tick at which it arrives
\*   pybuf  characters an earlier raw read brought into sys.stdin's buffer
\* ------------------------------------------------------------------------
Term(t, b, c) == [tty |-> t, pybuf |-> b, clock |-> c]

\* tty.setraw(fd): termios.tcsetattr(fd, TCSAFLUSH, ...) discards the input
\* that is queued on the descriptor and not yet read
setraw(s) ==
    [s EXCEPT !.tty = SelectSeq(s.tty, LAMBDA e : e.at > s.clock)]

\* select.select([sys.stdin], [], [], timeout)[0]: the descriptor has a byte
\* now or gets one before the timeout; sys.stdin's own buffer is not looked at
select(s, timeout) ==
    s.tty # <<>> /\ Head(s.tty).at <= s.clock + timeout

\* sys.stdin.read(1) cannot return: nothing buffered and no byte will come
Blocks(s) == s.pybuf = <<>> /\ s.tty = <<>>

\* sys.stdin.read(1): the next buffered character; with an empty buffer one
\* raw read waits for the first byte and takes every byte available then
stdin_read(s) ==
    IF s.pybuf # <<>>
    THEN [e |-> Head(s.pybuf), s |-> [s EXCEPT !.pybuf = Tail(s.pybuf)]]
    ELSE LET now == Max(s.clock, Head(s.tty).at)
             got == SelectSeq(s.tty, LAMBDA e : e.at <= now)
             rest == SelectSeq(s.tty, LAMBDA e : e.at > now)
         IN  [e |-> Head(got), s |-> Term(rest, Tail(got), now)]

\* while select.select([sys.stdin], [], [], timeout)[0]: sys.stdin.read(1)
\* with ord() of the character taken for the log.  Result: the terminal
\* afterwards and whether ord('') raised.
RECURSIVE drain(_, _)
drained(r, timeout) ==
    IF r.e.ch = EOF
    THEN [s |-> r.s, raised |-> TRUE]
    ELSE drain(r.s, timeout)

drain(s, timeout) ==
    IF select(s, timeout)
    THEN drained(stdin_read([s EXCEPT !.clock = Max(s.clock, Head(s.tty).at)]),
                 timeout)
    ELSE [s |-> [s EXCEPT !.clock = s.clock + timeout], raised |-> FALSE]

\* for _ in range(3): the drain loop
RECURSIVE drain_passes(_, _)
next_pass(d, n) == IF d.raised THEN d ELSE drain_passes(d.s, n - 1)

drain_passes(s, n) ==
    IF n = 0
    THEN [s |-> s, raised |-> FALSE]
    ELSE next_pass(drain(s, ESC_POLL), n)

\* ch == ' ' or ch in 'qQxX0123456789pdwmsPDWMSuUiItTbBhH'
allowed(ch) == ch \in Recognized

\* ord(ch) < 32 and ch != ' '
is_control(ch) == ch < CTRL_LIMIT /\ ch # SPACE

\* what a get_key call hands back: the value returned (a key, None, or
\* Raised), the terminal afterwards, the byte read first and the ids of the
\* bytes that were pending behind it
key_result(k, s, r) ==
    [ret |-> k, s |-> s, first |-> r.e,
     behind |-> {r.s.pybuf[j].id :
                   j \in {n \in 1..Len(r.s.pybuf) : r.s.pybuf[n].ch # EOF}}]

\* return None after a drain, unless ord('') raised in it
after_drain(d, r) == key_result(IF d.raised THEN Raised ELSE None, d.s, r)

\* get_key() from the first read on
decode(r) ==
    IF r.e.ch = EOF
    THEN key_result(Raised, r.s, r)
    ELSE IF r.e.ch = ESC
    THEN after_drain(drain_passes(r.s, ESC_PASSES), r)
    ELSE IF is_control(r.e.ch)
    THEN after_drain(drain(r.s, CTRL_POLL), r)
    ELSE IF allowed(r.e.ch)
    THEN key_result(r.e.ch, r.s, r)
    ELSE key_result(None, r.s, r)

\* get_key(), UNIX branch, called on a terminal where it does not block for
\* ever
get_key(s) == decode(stdin_read(setraw(s)))

\* get_key() cannot return on this terminal
get_key_blocks(s) == Blocks(setraw(s))

\* a prefix test that looks at the length only
startswith_length(text, buffer) == Len(buffer) <= Len(text)

\* 'quit'.startswith(buffer)
startswith(text, buffer) ==
    Len(buffer) <= Len(text) /\ SubSeq(text, 1, Len(buffer)) = buffer

quit_result(st, val, s, calls) ==
    [st |-> st, val |-> val, s |-> s, calls |-> calls]

\* the get_key calls check_for_quit has made: when each started, what it
\* returned, the byte it read first and the bytes pending behind that
logged(calls, s, g) ==
    Append(calls, [start |-> s.clock, ret |-> g.ret, id |-> g.first.id,
                   behind |-> g.behind])

\* the while loop of check_for_quit
RECURSIVE quit_loop(_, _, _, _)
quit_append(b, s, timeout, calls) ==
    IF b = QUIT
    THEN quit_result("returned", TRUE, s, calls)
    ELSE IF ~startswith(QUIT, b)
    THEN quit_result("returned", FALSE, s, calls)
    ELSE quit_loop(b, s, timeout, calls)

quit_key(buffer, g, timeout, calls) ==
    IF g.ret = Raised
    THEN quit_result("raised", FALSE, g.s, calls)
    ELSE IF g.ret = None
    THEN quit_loop(buffer, g.s, timeout, calls)
    ELSE quit_append(Append(buffer, lower(g.ret)), g.s, timeout, calls)

\* a check_for_quit that looks at a key and leaves it on the terminal when
\* it is no part of the phrase
quit_read_peek(buffer, s, g, timeout, calls) ==
    IF g.ret \notin {None, Raised} /\ ~startswith(QUIT, Append(buffer, lower(g.ret)))
    THEN quit_result("returned", FALSE, s, logged(calls, s, g))
    ELSE quit_key(buffer, g, timeout, logged(calls, s, g))

quit_read(buffer, s, g, timeout, calls) ==
    quit_key(buffer, g, timeout, logged(calls, s, g))

quit_loop(buffer, s, timeout, calls) ==
    IF Len(buffer) < QUIT_LEN /\ s.clock < timeout
    THEN IF get_key_blocks(s)
         THEN quit_result("blocked", FALSE, s, calls)
         ELSE quit_read(buffer, s, get_key(s), timeout, calls)
    ELSE quit_result("returned", FALSE, s, calls)

\* a check_for_quit without the test of line 120: any key that is not None
\* starts the wait for the rest of the phrase
check_for_quit_any_key(key, s) ==
    IF key = None
    THEN quit_result("returned", FALSE, s, <<>>)
    ELSE quit_loop(<<KEY_q>>, s, s.clock + QUIT_TIMEOUT, <<>>)

\* check_for_quit(key) on terminal s
check_for_quit(key, s) ==
    IF key = None
    THEN quit_result("returned", FALSE, s, <<>>)
    ELSE IF lower(key) # KEY_q
    THEN quit_result("returned", FALSE, s, <<>>)
    ELSE quit_loop(<<KEY_q>>, s, s.clock + QUIT_TIMEOUT, <<>>)

\* the results file before a session has written to it
NoWrites == [yes |-> 0, no |-> 0, practice |-> 0, row |-> 0]

\* no practice session runs
PracticeIdle ==
    /\ practice_words = <<>>
    /\ group = <<>>
    /\ pseen = <<>>
    /\ i = 0
    /\ current_num = 0
    /\ ppc = "idle"
    /\ pkey = None
    /\ phist = <<>>

\* get_key is not followed statement by statement
DrainIdle ==
    /\ dpc = "idle"
    /\ dfirst = None
    /\ dpass = 0
    /\ dfd = 0
    /\ dbuf = 0
    /\ dleft = 0

\* no quiz session runs
NoDue == 0 - 1

\* tally of an item that was never missed
NoMiss == 0 - 1
QuizIdle ==
    /\ quiz_words = <<>>
    /\ front = <<>>
    /\ queue = <<>>
    /\ repeat_words = <<>>
    /\ position = 0
    /\ correct_count = 0
    /\ incorrect_count = 0
    /\ word = 0
    /\ needed_correct = 0
    /\ pending = <<>>
    /\ pidx = 0
    /\ score = <<>>
    /\ pc = "idle"
    /\ judged = "none"
    /\ shown = <<>>
    /\ missDue = <<>>
    /\ retired0 = {}
    /\ tally = <<>>
    /\ lastAt = <<>>
    /\ sink = NoWrites

\* ------------------------------------------------------------------------
\* Decoder specification: a caller reads keys from a byte stream and hands
\* them to check_for_quit
\* ------------------------------------------------------------------------
\* gaps between two bytes: same burst, within every poll, past the deadline
Gaps == {0, CTRL_POLL, QUIT_TIMEOUT + 1}

\* bytes after the first one, x for a key that is a command; 91 is '[', which get_key does not recognize
TailChars == {ESC, KEY_u, KEY_i, KEY_t, KEY_T, KEY_x, 91, EOF}

FirstChars == (0..MaxChar) \cup {EOF}

\* the streams: any first character with at most one byte after it, and a
\* q with up to MaxTail bytes after it
TailShapes ==
    [first : FirstChars, n : 0..Min(1, MaxTail)] \cup [first : {KEY_q}, n : 2..MaxTail]

\* arrival times from gaps; the first byte arrives at tick 1
RECURSIVE Arrive(_, _, _, _)
Arrive(chs, gaps, at, id) ==
    IF chs = <<>>
    THEN <<>>
    ELSE <<[ch |-> Head(chs), at |-> at + Head(gaps), id |-> id]>>
         \o Arrive(Tail(chs), Tail(gaps), at + Head(gaps), id + 1)

Current == Term(tty, pybuf, clock)

NoCall == [key |-> None, entry |-> Term(<<>>, <<>>, 0), st |-> "none",
           calls |-> <<>>, deadline |-> 0, end |-> 0]

InitKey ==
    /\ \E sh \in TailShapes :
         \E chs \in [1..sh.n -> TailChars], gaps \in [1..sh.n -> Gaps] :
            input = Arrive(<<sh.first>> \o chs, <<1>> \o gaps, 0, 1)
    /\ tty = input
    /\ pybuf = <<>>
    /\ clock = 0
    /\ ret = None
    /\ firstch = None
    /\ quitret = FALSE
    /\ quitlog = NoCall
    /\ returned = {}
    /\ escPending = {}
    /\ kpc = "read"
    /\ QuizIdle
    /\ PracticeIdle
    /\ DrainIdle

KeysOf(calls) ==
    {calls[j].id : j \in {k \in 1..Len(calls) : calls[k].ret \notin {None, Raised}}}

GotKey(g) ==
    /\ tty' = g.s.tty
    /\ pybuf' = g.s.pybuf
    /\ clock' = g.s.clock
    /\ ret' = g.ret
    /\ firstch' = g.first.ch
    /\ returned' = IF g.ret \in {None, Raised} THEN returned
                   ELSE returned \cup {g.first.id}
    /\ escPending' = IF g.first.ch = ESC THEN escPending \cup g.behind
                     ELSE escPending
    /\ kpc' = IF g.ret = Raised THEN "raised" ELSE "have_key"

\* key = get_key() in a session loop
CallGetKey ==
    /\ kpc \in {"read", "have_key"}
    /\ ~get_key_blocks(Current)
    /\ GotKey(get_key(Current))
    /\ UNCHANGED <<input, quitret, quitlog, qvars, pvars, dvars, sink>>

QuitChecked(c) ==
    /\ c.st # "blocked"
    /\ tty' = c.s.tty
    /\ pybuf' = c.s.pybuf
    /\ clock' = c.s.clock
    /\ quitret' = c.val
    /\ quitlog' = [key |-> ret, entry |-> Current, st |-> c.st,
                   calls |-> c.calls, deadline |-> clock + QUIT_TIMEOUT,
                   end |-> c.s.clock]
    /\ returned' = returned \cup KeysOf(c.calls)
    /\ kpc' = IF c.st = "raised" THEN "raised" ELSE "read"

\* check_for_quit(key) with the key just read
CallCheckForQuit ==
    /\ kpc = "have_key"
    /\ QuitChecked(check_for_quit(ret, Current))
    /\ UNCHANGED <<input, ret, firstch, escPending, qvars, pvars, dvars, sink>>

\* the caller is busy (drawing a card) until the next byte has arrived
Busy ==
    /\ kpc \in {"read", "have_key"}
    /\ tty # <<>>
    /\ Head(tty).at > clock
    /\ clock' = Head(tty).at
    /\ UNCHANGED <<input, tty, pybuf, ret, firstch, quitret, quitlog,
                   returned, escPending, kpc, qvars, pvars, dvars, sink>>

NextKey == CallGetKey \/ CallCheckForQuit \/ Busy

SpecKey == InitKey /\ [][NextKey]_vars

\* ------------------------------------------------------------------------
\* Properties of the decoder and of the quit phrase detector
\* ------------------------------------------------------------------------
\* the next n keys the decoder yields from terminal s, None results skipped,
\* lower-cased
RECURSIVE decoded_keys(_, _)
decoded_next(g, n) ==
    IF g.ret = Raised THEN <<>>
    ELSE IF g.ret = None THEN decoded_keys(g.s, n)
    ELSE <<lower(g.ret)>> \o decoded_keys(g.s, n - 1)

decoded_keys(s, n) ==
    IF n = 0 \/ get_key_blocks(s) THEN <<>> ELSE decoded_next(get_key(s), n)

\* the same, counting only get_key calls that start before the deadline
RECURSIVE timely_keys(_, _, _)
timely_next(g, n, deadline) ==
    IF g.ret = Raised THEN <<>>
    ELSE IF g.ret = None THEN timely_keys(g.s, n, deadline)
    ELSE <<lower(g.ret)>> \o timely_keys(g.s, n - 1, deadline)

timely_keys(s, n, deadline) ==
    IF n = 0 \/ get_key_blocks(s) \/ s.clock >= deadline
    THEN <<>>
    ELSE timely_next(get_key(s), n, deadline)

\* the buffer after the first j get_key calls of a check_for_quit call
RECURSIVE BufferAfter(_, _)
BufferAfter(calls, j) ==
    IF j = 0 THEN <<KEY_q>>
    ELSE IF calls[j].ret \in {None, Raised} THEN BufferAfter(calls, j - 1)
    ELSE Append(BufferAfter(calls, j - 1), lower(calls[j].ret))

ProperPrefixOfQuit(b) == \E k \in 0..(QUIT_LEN - 1) : b = SubSeq(QUIT, 1, k)

\* check_for_quit was called with q or Q and has returned
QuitReturned ==
    /\ quitlog.st = "returned"
    /\ quitlog.key # None
    /\ lower(quitlog.key) = KEY_q

UIT == <<KEY_u, KEY_i, KEY_t>>

\* C6 as claimed: check_for_quit called with q/Q returns true if and only if
\* the next decoded keys, None skipped and lower-cased, are exactly u, i, t
C6_QuitIffKeys ==
    QuitReturned => (quitret <=> decoded_keys(quitlog.entry, 3) = UIT)

\* C6 amended: check_for_quit called with q/Q returns true if and only if the
\* next decoded keys, None skipped and lower-cased, are exactly u, i, t and
\* every get_key call that read them started before the deadline; it reads no
\* further key once the buffer is "quit" or no prefix of "quit"
C6_QuitExact ==
    QuitReturned =>
        /\ quitret <=> timely_keys(quitlog.entry, 3, quitlog.deadline) = UIT
        /\ \A j \in 0..(Len(quitlog.calls) - 1) :
               ProperPrefixOfQuit(BufferAfter(quitlog.calls, j))
        /\ quitret => BufferAfter(quitlog.calls, Len(quitlog.calls)) = QUIT

\* C6 witness: q, then u, i, t read by three get_key calls, answered true
C6_Witness ==
    /\ QuitReturned
    /\ quitret
    /\ Len(quitlog.calls) = 3

\* C6 witness of the immediate false: a None was skipped, then a key that
\* is no part of "quit" ended the call
C6_WitnessDiverge ==
    /\ QuitReturned
    /\ ~quitret
    /\ Len(quitlog.calls) = 2
    /\ quitlog.calls[1].ret = None
    /\ ~ProperPrefixOfQuit(BufferAfter(quitlog.calls, 2))

\* C7 as claimed: check_for_quit returns true only when u, i and t were all
\* supplied before the deadline of 1 second after entry
C7_QuitBeforeDeadline ==
    (QuitReturned /\ quitret) => quitlog.end < quitlog.deadline

\* C8 as claimed: the bytes pending behind an escape byte that get_key read
\* first are consumed by that call: none stays buffered, none is ever
\* returned as a key
C8_EscapeConsumed ==
    /\ escPending \cap returned = {}
    /\ escPending \cap {pybuf[j].id : j \in 1..Len(pybuf)} = {}

\* C9 as claimed: get_key returns the first byte unchanged iff it is space
\* or one of the recognized characters, and None for every other byte
C9_Classification ==
    (firstch \in 0..MaxChar) =>
        IF firstch \in Recognized THEN ret = firstch ELSE ret = None

\* C10 as claimed: get_key returns a key or None for every outcome of the
\* raw read and never lets an error out
C10_NeverRaises == ret # Raised /\ kpc # "raised"

\* ------------------------------------------------------------------------
\* run_quiz: the requeue scheduler
\* ------------------------------------------------------------------------
\* a delay that can be shorter than five positions
repeat_delays_early == 0..10

\* a delay that can be four positions
repeat_delays_short == 4..10

\* random.randint(5, 10)
repeat_delays == 5..10

\* list.insert(idx, e)
list_insert(q, idx, e) ==
    SubSeq(q, 1, idx) \o <<e>> \o SubSeq(q, idx + 1, Len(q))

\* an insertion anywhere in the queue
insert_slots_any(q) == 0..Len(q)

\* random.randint(0, min(3, len(queue)))
insert_slots(q) == 0..Min(3, Len(q))

\* a due test that lets every pending repeat through
is_due_at_once(pos, insert_pos) == pos >= 0 \/ pos >= insert_pos

\* if position >= insert_pos
is_due(pos, insert_pos) == pos >= insert_pos

\* a retirement test that repeats every item answered correctly
needs_repeat_always(streak) == streak >= 0

\* a retirement test that asks for one correct answer more
needs_repeat_once_more(streak) == streak > 0

\* if needed_correct > 1 / if streak_needed > 1
needs_repeat(streak) == streak > 1

\* a correct answer that leaves the streak as it is
streak_kept(streak) == streak

\* a miss that adds to the streak instead of setting it
streak_added(streak) == streak + 2

\* a miss that asks for one correct answer only
streak_one(streak) == 1

\* a miss that asks for three correct answers
streak_three(streak) == 3

\* the streak a correct answer leaves, and the streak a miss sets
streak_after_correct(streak) == streak - 1
streak_after_miss(streak) == 2

\* a position that goes up by two
next_position_skip(pos) == pos + 2

\* position += 1
next_position(pos) == pos + 1

\* a registry test that always finds the registry empty
no_repeats_always(reg) == reg = reg

\* while repeat_words: the registry is empty
no_repeats(reg) == reg = <<>>

\* a final score that is shown twice
show_final_score_twice(log, correct, incorrect, complete) ==
    log \o << [correct |-> correct, incorrect |-> incorrect, complete |-> complete],
              [correct |-> correct, incorrect |-> incorrect, complete |-> complete] >>

\* show_final_score(correct_count, incorrect_count, complete)
show_final_score(log, correct, incorrect, complete) ==
    Append(log, [correct |-> correct, incorrect |-> incorrect, complete |-> complete])

\* counters are told apart up to MaxCount
count_up(c) == IF c < MaxCount THEN c + 1 ELSE c

\* a save_result that writes 'no' whatever the judgment
save_result_no(file, w, correct) == [file EXCEPT !.no = count_up(@), !.row = w]

\* a save_result that appends its row twice
save_result_twice(file, w, correct) ==
    IF correct
    THEN [file EXCEPT !.yes = count_up(count_up(@)), !.row = w]
    ELSE [file EXCEPT !.no = count_up(count_up(@)), !.row = w]

\* save_result appends one row for the word, 'yes' if correct else 'no'
save_result(file, w, correct) ==
    IF correct
    THEN [file EXCEPT !.yes = count_up(@), !.row = w]
    ELSE [file EXCEPT !.no = count_up(@), !.row = w]

Entry(w, streak) == [w |-> w, streak |-> streak]

\* a registry that drops the repeat it is handed
dict_dropped(reg, key, w, streak, pos) == reg

\* a registry that takes a second entry for a key it holds
dict_append(reg, key, w, streak, pos) ==
    Append(reg, [key |-> key, w |-> w, streak |-> streak, pos |-> pos])

\* repeat_words[key] = (w, streak, pos): a key already present keeps its place
dict_set(reg, key, w, streak, pos) ==
    IF \E j \in 1..Len(reg) : reg[j].key = key
    THEN [j \in 1..Len(reg) |->
             IF reg[j].key = key
             THEN [key |-> key, w |-> w, streak |-> streak, pos |-> pos]
             ELSE reg[j]]
    ELSE Append(reg, [key |-> key, w |-> w, streak |-> streak, pos |-> pos])

\* the entries the due scan takes out of repeat_words, as queue entries
due_entries(reg, pos) ==
    LET due == SelectSeq(reg, LAMBDA r : is_due(pos, r.pos))
    IN  [j \in 1..Len(due) |-> Entry(due[j].w, due[j].streak)]

\* a due scan that leaves the due entries in repeat_words
not_due_all(reg, pos) == reg

\* a due scan that empties the registry
not_due_none(reg, pos) == <<>>

not_due(reg, pos) == SelectSeq(reg, LAMBDA r : ~is_due(pos, r.pos))

\* every queue the insertion loop can produce from q and the due entries
RECURSIVE inserted(_, _)
inserted(q, due) ==
    IF due = <<>>
    THEN {q}
    ELSE UNION {inserted(list_insert(q, idx, Head(due)), Tail(due)) :
                idx \in insert_slots(q)}

\* a round that takes only the first pending repeat
pending_first(reg) == <<Entry(reg[1].w, reg[1].streak)>>

\* [(w, streak) for w, streak, _ in repeat_words.values()]
pending_of(reg) == [j \in 1..Len(reg) |-> Entry(reg[j].w, reg[j].streak)]

\* random.shuffle: every order of a deck of up to MaxDeck items; of a longer
\* deck, its rotations
Orders(deck) ==
    {p \in [1..Len(deck) -> 1..Len(deck)] :
        \A a, b \in 1..Len(deck) : a # b => p[a] # p[b]}

Rotations(deck) ==
    {[j \in 1..Len(deck) |-> ((j + r - 1) % Len(deck)) + 1] : r \in 1..Len(deck)}

\* a shuffle that draws with replacement: the first item in every place
shuffle_repeating(deck) == {[j \in 1..Len(deck) |-> deck[1]]}

shuffle(deck) ==
    {[j \in 1..Len(deck) |-> deck[p[j]]] :
        p \in IF Len(deck) <= MaxDeck THEN Orders(deck) ELSE Rotations(deck)}

\* what get_key can hand to the session loop
KeyResults == Recognized \cup {None}

\* what the user types after a q within the quit window, one key per tick
QuitTails ==
    {<<KEY_u, KEY_i, KEY_t>>, <<KEY_u, KEY_i, KEY_T>>, <<KEY_u, KEY_i, KEY_x>>,
     <<KEY_u, KEY_x, KEY_t>>, <<KEY_x, KEY_i, KEY_t>>}

Typed(tail) ==
    Term(Arrive(tail, [j \in 1..Len(tail) |-> 1], 0, 1), <<>>, 0)

\* elif check_for_quit(key): with some continuation of the typing
quits(key, tail) == check_for_quit(key, Typed(tail)).val


WaitPoints == {"question", "answer", "drain_question", "drain_answer"}

\* keys a wait point acts on before it asks check_for_quit
handled(at, key) ==
    \/ key = None
    \/ key = SPACE
    \/ at \in {"answer", "drain_answer"} /\ lower(key) = KEY_x

\* a key loop that tests x before anything else
quiz_branch_x_first(at, key) ==
    IF is_none(key) THEN "none"
    ELSE IF key # None /\ lower(key) = KEY_x THEN "x"
    ELSE IF key = SPACE THEN "space"
    ELSE "check_for_quit"

\* the branch of a key loop of run_quiz that takes this key; key.lower() on
\* None raises AttributeError
quiz_branch(at, key) ==
    IF is_none(key) THEN "none"
    ELSE IF key = SPACE THEN "space"
    ELSE IF at \in {"question", "drain_question"} THEN "check_for_quit"
    ELSE IF key = None THEN "error"
    ELSE IF lower(key) = KEY_x THEN "x"
    ELSE "check_for_quit"

\* some key reaches "elif check_for_quit(key)" at this wait point and, with
\* what is typed after it, gets this answer
reaches_quit_check(at, answer) ==
    \E key \in KeyResults, tail \in QuitTails :
        ~handled(at, key) /\ quits(key, tail) = answer

Present(w) == shown' = [shown EXCEPT ![w] = count_up(@)]

\* the decks: 0..MaxDeck items and one deck of LongDeck items
Decks ==
    {[j \in 1..n |-> j] : n \in 0..MaxDeck} \cup {[j \in 1..LongDeck |-> j]}

\* the decks of the sessions with any number of misses
SmallDecks == {[j \in 1..n |-> j] : n \in 1..SmallDeck}

\* run_quiz is entered with one of these filtered decks
QuizEntered(decks) ==
    /\ quiz_words \in decks
    /\ front = [w \in 1..Len(quiz_words) |-> w]
    /\ queue = <<>>
    /\ repeat_words = <<>>
    /\ position = 0
    /\ correct_count = 0
    /\ incorrect_count = 0
    /\ word = 0
    /\ needed_correct = 0
    /\ pending = <<>>
    /\ pidx = 0
    /\ score = <<>>
    /\ pc = "start"
    /\ judged = "none"
    /\ shown = [w \in 1..Len(quiz_words) |-> 0]
    /\ missDue = [w \in 1..Len(quiz_words) |-> NoDue]
    /\ retired0 = {}
    /\ tally = [w \in 1..Len(quiz_words) |-> NoMiss]
    /\ lastAt = [w \in 1..Len(quiz_words) |-> NoDue]
    /\ sink = NoWrites

InitQuiz == QuizEntered(Decks)

KeyIdle ==
    /\ input = <<>>
    /\ tty = <<>>
    /\ pybuf = <<>>
    /\ clock = 0
    /\ ret = None
    /\ firstch = None
    /\ quitret = FALSE
    /\ quitlog = NoCall
    /\ returned = {}
    /\ escPending = {}
    /\ kpc = "idle"

Init == InitQuiz /\ KeyIdle /\ PracticeIdle /\ DrainIdle

\* if not quiz_words: return
EmptyDeck ==
    /\ pc = "start"
    /\ no_words(quiz_words)
    /\ pc' = "empty"
    /\ UNCHANGED <<kvars, pvars, dvars, sink, tally, lastAt, quiz_words, front, queue, repeat_words, position,
                   correct_count, incorrect_count, word, needed_correct,
                   pending, pidx, score, judged, shown, missDue, retired0>>

\* random.shuffle(quiz_words) ... position = 0
StartQuiz ==
    /\ pc = "start"
    /\ ~no_words(quiz_words)
    /\ \E order \in shuffle(quiz_words) :
          queue' = [j \in 1..Len(order) |-> Entry(order[j], 0)]
    /\ repeat_words' = <<>>
    /\ position' = 0
    /\ correct_count' = 0
    /\ incorrect_count' = 0
    /\ pc' = "loop"
    /\ UNCHANGED <<kvars, pvars, dvars, sink, tally, lastAt, quiz_words, front, word, needed_correct, pending, pidx,
                   score, judged, shown, missDue, retired0>>

\* while queue: pop the front entry, put the due repeats back, show the
\* question
Dequeue ==
    /\ pc = "loop"
    /\ queue # <<>>
    /\ word' = Head(queue).w
    /\ needed_correct' = Head(queue).streak
    /\ queue' \in inserted(Tail(queue), due_entries(repeat_words, position))
    /\ repeat_words' = not_due(repeat_words, position)
    /\ Present(Head(queue).w)
    /\ pc' = "question"
    /\ UNCHANGED <<kvars, pvars, dvars, sink, tally, lastAt, quiz_words, front, position, correct_count, incorrect_count,
                   pending, pidx, score, judged, missDue, retired0>>

\* the head of "while repeat_words:" is reached
AtDrainHead ==
    \/ pc = "loop" /\ queue = <<>>
    \/ pc = "drain" /\ pidx = Len(pending)

\* while repeat_words: pending = ...; repeat_words.clear(); show the first
StartDrainRound ==
    /\ AtDrainHead
    /\ ~no_repeats(repeat_words)
    /\ pending' = pending_of(repeat_words)
    /\ repeat_words' = <<>>
    /\ pidx' = 1
    /\ word' = repeat_words[1].w
    /\ needed_correct' = repeat_words[1].streak
    /\ Present(repeat_words[1].w)
    /\ pc' = "drain_question"
    /\ UNCHANGED <<kvars, pvars, dvars, sink, tally, lastAt, quiz_words, front, queue, position, correct_count,
                   incorrect_count, score, judged, missDue, retired0>>

\* for word, streak_needed in pending: the next one
NextPending ==
    /\ pc = "drain"
    /\ pidx < Len(pending)
    /\ pidx' = pidx + 1
    /\ word' = pending[pidx + 1].w
    /\ needed_correct' = pending[pidx + 1].streak
    /\ Present(pending[pidx + 1].w)
    /\ pc' = "drain_question"
    /\ UNCHANGED <<kvars, pvars, dvars, sink, tally, lastAt, quiz_words, front, queue, repeat_words, position,
                   correct_count, incorrect_count, pending, score, judged,
                   missDue, retired0>>

\* show_final_score(correct_count, incorrect_count, complete=True)
Complete ==
    /\ AtDrainHead
    /\ no_repeats(repeat_words)
    /\ score' = show_final_score(score, correct_count, incorrect_count, TRUE)
    /\ pc' = "complete"
    /\ UNCHANGED <<kvars, pvars, dvars, sink, tally, lastAt, quiz_words, front, queue, repeat_words, position,
                   correct_count, incorrect_count, word, needed_correct,
                   pending, pidx, judged, shown, missDue, retired0>>

\* if key == ' ': break, at a question
Reveal ==
    /\ pc \in {"question", "drain_question"}
    /\ \E key \in KeyResults : quiz_branch(pc, key) = "space"
    /\ pc' = IF pc = "question" THEN "answer" ELSE "drain_answer"
    /\ UNCHANGED <<kvars, pvars, dvars, sink, tally, lastAt, quiz_words, front, queue, repeat_words, position,
                   correct_count, incorrect_count, word, needed_correct,
                   pending, pidx, score, judged, shown, missDue, retired0>>

\* elif check_for_quit(key): show_final_score(...); return
Quit ==
    /\ pc \in WaitPoints
    /\ reaches_quit_check(pc, TRUE) = TRUE
    /\ score' = show_final_score(score, correct_count, incorrect_count, FALSE)
    /\ pc' = "ended"
    /\ UNCHANGED <<kvars, pvars, dvars, sink, tally, lastAt, quiz_words, front, queue, repeat_words, position,
                   correct_count, incorrect_count, word, needed_correct,
                   pending, pidx, judged, shown, missDue, retired0>>

\* key is None: continue, and a key no branch takes: the loop reads again
IgnoreKey ==
    /\ pc \in WaitPoints
    /\ (None \in KeyResults \/ reaches_quit_check(pc, FALSE)) = TRUE
    /\ UNCHANGED <<kvars, qvars, pvars, dvars, sink>>

\* a key that every word of the deck shares
word_key_shared(w) == front[1]

\* word['pinyin']: the key of repeat_words
word_key(w) == front[w]

\* the registry after a correct answer on the item on screen
after_correct(reg, pos) ==
    IF needs_repeat(needed_correct)
    THEN dict_set(reg, word_key(word), word, streak_after_correct(needed_correct), pos)
    ELSE reg

\* if key == ' ' at an answer of the main loop
JudgeCorrect ==
    /\ pc = "answer"
    /\ \E key \in KeyResults : quiz_branch(pc, key) = "space"
    /\ correct_count' = count_up(correct_count)
    /\ \E delay \in repeat_delays :
          repeat_words' = after_correct(repeat_words, position + delay)
    /\ position' = next_position(position)
    /\ sink' = save_result(sink, word, TRUE)
    /\ lastAt' = [lastAt EXCEPT ![word] = position]
    /\ tally' = [tally EXCEPT ![word] = IF @ = NoMiss THEN NoMiss ELSE count_up(@)]
    /\ judged' = "correct"
    /\ missDue' = [missDue EXCEPT ![word] = NoDue]
    /\ retired0' = IF needed_correct = 0 THEN retired0 \cup {word} ELSE retired0
    /\ pc' = "loop"
    /\ UNCHANGED <<kvars, pvars, dvars, quiz_words, front, queue, incorrect_count, word,
                   needed_correct, pending, pidx, score, shown>>

\* elif key.lower() == 'x' at an answer of the main loop
JudgeIncorrectAny ==
    /\ pc = "answer"
    /\ \E key \in KeyResults : quiz_branch(pc, key) = "x"
    /\ incorrect_count' = count_up(incorrect_count)
    /\ \E delay \in repeat_delays :
          /\ repeat_words' = dict_set(repeat_words, word_key(word), word,
                                      streak_after_miss(needed_correct),
                                      position + delay)
          /\ missDue' = [missDue EXCEPT ![word] = position + delay]
    /\ position' = next_position(position)
    /\ sink' = save_result(sink, word, FALSE)
    /\ lastAt' = [lastAt EXCEPT ![word] = position]
    /\ tally' = [tally EXCEPT ![word] = 0]
    /\ judged' = "incorrect"
    /\ pc' = "loop"
    /\ UNCHANGED <<kvars, pvars, dvars, quiz_words, front, queue, correct_count, word,
                   needed_correct, pending, pidx, score, shown, retired0>>

\* if key == ' ' at an answer of the drain phase
DrainCorrect ==
    /\ pc = "drain_answer"
    /\ \E key \in KeyResults : quiz_branch(pc, key) = "space"
    /\ correct_count' = count_up(correct_count)
    /\ repeat_words' = after_correct(repeat_words, 0)
    /\ sink' = save_result(sink, word, TRUE)
    /\ lastAt' = lastAt
    /\ tally' = [tally EXCEPT ![word] = IF @ = NoMiss THEN NoMiss ELSE count_up(@)]
    /\ judged' = "correct"
    /\ missDue' = [missDue EXCEPT ![word] = NoDue]
    /\ retired0' = IF needed_correct = 0 THEN retired0 \cup {word} ELSE retired0
    /\ pc' = "drain"
    /\ UNCHANGED <<kvars, pvars, dvars, quiz_words, front, queue, position, incorrect_count, word,
                   needed_correct, pending, pidx, score, shown>>

\* elif key.lower() == 'x' at an answer of the drain phase
DrainIncorrectAny ==
    /\ pc = "drain_answer"
    /\ \E key \in KeyResults : quiz_branch(pc, key) = "x"
    /\ incorrect_count' = count_up(incorrect_count)
    /\ repeat_words' = dict_set(repeat_words, word_key(word), word,
                                streak_after_miss(needed_correct), 0)
    /\ missDue' = [missDue EXCEPT ![word] = 0]
    /\ sink' = save_result(sink, word, FALSE)
    /\ lastAt' = lastAt
    /\ tally' = [tally EXCEPT ![word] = 0]
    /\ judged' = "incorrect"
    /\ pc' = "drain"
    /\ UNCHANGED <<kvars, pvars, dvars, quiz_words, front, queue, position, correct_count, word,
                   needed_correct, pending, pidx, score, shown, retired0>>

\* the sessions checked: at most MaxIncorrect misses each
JudgeIncorrect == incorrect_count < MaxIncorrect /\ JudgeIncorrectAny
DrainIncorrect == incorrect_count < MaxIncorrect /\ DrainIncorrectAny

Next ==
    \/ EmptyDeck
    \/ StartQuiz
    \/ Dequeue
    \/ StartDrainRound
    \/ NextPending
    \/ Complete
    \/ Reveal
    \/ Quit
    \/ IgnoreKey
    \/ JudgeCorrect
    \/ JudgeIncorrect
    \/ DrainCorrect
    \/ DrainIncorrect

Spec == Init /\ [][Next]_vars

\* the sessions with any number of misses, in which the program keeps
\* running and the user keeps pressing a reveal or judge key
InitEndless == QuizEntered(SmallDecks) /\ KeyIdle /\ PracticeIdle /\ DrainIdle

NextEndless ==
    \/ StartQuiz
    \/ Dequeue
    \/ StartDrainRound
    \/ NextPending
    \/ Complete
    \/ Reveal
    \/ Quit
    \/ IgnoreKey
    \/ JudgeCorrect
    \/ JudgeIncorrectAny
    \/ DrainCorrect
    \/ DrainIncorrectAny

ProgramStep == StartQuiz \/ Dequeue \/ StartDrainRound \/ NextPending \/ Complete

UserAnswers ==
    Reveal \/ JudgeCorrect \/ JudgeIncorrectAny \/ DrainCorrect \/ DrainIncorrectAny

SpecEndless ==
    /\ InitEndless
    /\ [][NextEndless]_vars
    /\ WF_vars(ProgramStep)
    /\ WF_vars(UserAnswers)

\* ------------------------------------------------------------------------
\* Properties of run_quiz
\* ------------------------------------------------------------------------
Items == 1..Len(quiz_words)

RECURSIVE ShownUpTo(_)
ShownUpTo(n) == IF n = 0 THEN 0 ELSE shown[n] + ShownUpTo(n - 1)

\* the number of presentations so far; the card on screen has index
\* Presented - 1 in the presented sequence
Presented == ShownUpTo(Len(quiz_words))

InQueue(w) == \E j \in 1..Len(queue) : queue[j].w = w
InRegistry(w) == \E j \in 1..Len(repeat_words) : repeat_words[j].w = w
StillPending(w) ==
    pc \in {"drain", "drain_question", "drain_answer"}
    /\ \E j \in (pidx + 1)..Len(pending) : pending[j].w = w

\* C1: an item judged correct while its required streak is 0 is never again
\* in MainQueue or RepeatRegistry and is never presented again
C1_Retirement ==
    \A w \in retired0 :
        /\ shown[w] = 1
        /\ ~InQueue(w)
        /\ ~InRegistry(w)
        /\ ~StillPending(w)

\* C1 witness: after a retirement another item is on screen for the second
\* time or more
C1_Witness ==
    /\ retired0 # {}
    /\ pc = "question"
    /\ word \notin retired0
    /\ shown[word] >= 2

\* C2 as claimed: an item judged incorrect and given due position d is not
\* presented again before index d of the presented sequence, main loop and
\* drain phase alike
C2_NoEarlyReturn ==
    (pc \in WaitPoints /\ missDue[word] # NoDue) =>
        Presented - 1 >= missDue[word]

\* C2 amended: an item judged incorrect and given due position d is not
\* presented again by the main loop before index d of the presented
\* sequence (the drain phase may present it earlier)
C2_NoEarlyReturnMain ==
    (pc \in {"question", "answer"} /\ missDue[word] # NoDue) =>
        /\ Presented - 1 >= missDue[word]
        /\ Presented - 1 = position

\* C2 witness: the main loop shows an item again after its miss
C2_Witness ==
    /\ pc = "question"
    /\ missDue[word] # NoDue

\* C3: after an incorrect judgment in the main loop at Position p the
\* registry holds one repeat for the item, with streak 2 and a due position
\* in p+5..p+10
C3_MissSchedule ==
    (pc = "loop" /\ judged = "incorrect") =>
        /\ Cardinality({j \in 1..Len(repeat_words) :
                           repeat_words[j].key = front[word]}) = 1
        /\ \E j \in 1..Len(repeat_words) :
              /\ repeat_words[j].key = front[word]
              /\ repeat_words[j].w = word
              /\ repeat_words[j].streak = 2
              /\ repeat_words[j].pos \in (position - 1 + 5)..(position - 1 + 10)

\* C3 witness: a miss in the main loop on an item whose streak was not 0
C3_Witness ==
    /\ pc = "loop"
    /\ judged = "incorrect"
    /\ needed_correct >= 1

\* C4 as claimed: whatever the judgments are, a drain phase that has begun
\* comes to its end
C4_DrainTerminates ==
    (pc = "drain_question") ~> (pc \in {"complete", "ended"})

\* C4 amended: a drain phase that has begun comes to its end if from some
\* point on no judgment is incorrect
C4_DrainTerminatesIfMissesStop ==
    (<>[](judged # "incorrect")) =>
        ((pc = "drain_question") ~> (pc \in {"complete", "ended"}))

\* C4 witness: a session that went through a drain phase is complete
C4_Witness ==
    /\ pc = "complete"
    /\ pending # <<>>
    /\ repeat_words = <<>>

\* C5: a session with exactly one incorrect judgment that runs to completion
\* has shown the missed item three times and every other item once, and
\* ends with correctCount = N + 1
C5_OneMiss ==
    (pc = "complete" /\ incorrect_count = 1) =>
        /\ correct_count = Len(quiz_words) + 1
        /\ \E m \in Items :
              /\ shown[m] = 3
              /\ \A w \in Items \ {m} : shown[w] = 1
        /\ score = <<[correct |-> Len(quiz_words) + 1, incorrect |-> 1,
                      complete |-> TRUE]>>

\* C5 witness: the scenario with three items
C5_Witness ==
    /\ pc = "complete"
    /\ incorrect_count = 1
    /\ Len(quiz_words) = 3

\* ------------------------------------------------------------------------
\* get_key statement by statement, on a stream that may never stop sending
\*   dfd    bytes select.select sees on the file descriptor
\*   dbuf   characters sys.stdin.read takes without touching the descriptor
\*   dleft  bytes still to come; Endless: the stream never stops; Closed:
\*          nothing more comes and the descriptor reports end of input
\* ------------------------------------------------------------------------
Endless == 0 - 1
Closed == 0 - 2

DrainPoints == {"esc_poll", "esc_read", "ctrl_poll", "ctrl_read"}

\* select.select([sys.stdin], [], [], timeout)[0]: the descriptor is readable
\* when a byte waits on it or when it is at end of input
readable == dfd > 0 \/ dleft = Closed

\* sys.stdin.read(1) has something to return
can_read == dbuf > 0 \/ readable

\* sys.stdin.read(1) returns '': nothing buffered, nothing waiting, end of input
reads_nothing == dbuf = 0 /\ dfd = 0 /\ dleft = Closed

\* sys.stdin.read(1): a buffered character, else one raw read that takes
\* every waiting byte into the buffer and hands out the first
read_one ==
    IF dbuf > 0
    THEN dbuf' = dbuf - 1 /\ dfd' = dfd
    ELSE dbuf' = Max(dfd - 1, 0) /\ dfd' = 0

\* what is left of the stream after one more byte has come
left_after(n) ==
    IF n = Endless THEN {Endless} ELSE IF n = 1 THEN {0, Closed} ELSE {n - 1}

\* after tty.setraw: nothing waits on the descriptor
InitDrain ==
    /\ dpc = "read"
    /\ dfirst = None
    /\ dpass = 0
    /\ dfd = 0
    /\ dbuf \in 0..MaxPending
    /\ dleft \in (0..MaxStream) \cup {Endless, Closed}
    /\ KeyIdle
    /\ QuizIdle
    /\ PracticeIdle

\* the terminal sends the next byte
Arrive1 ==
    /\ dpc \in DrainPoints \cup {"read"}
    /\ dleft \notin {0, Closed}
    /\ dfd < MaxPending
    /\ dfd' = dfd + 1
    /\ dleft' \in left_after(dleft)
    /\ UNCHANGED <<kvars, qvars, pvars, sink, dpc, dfirst, dpass, dbuf>>

\* ch = sys.stdin.read(1) and the branch taken on it
ReadFirst ==
    /\ dpc = "read"
    /\ can_read
    /\ IF reads_nothing
       THEN /\ dfirst' = EOF
            /\ dpc' = "raised"
            /\ UNCHANGED <<dfd, dbuf>>
       ELSE /\ read_one
            /\ \E ch \in 0..MaxChar :
                  /\ dfirst' = ch
                  /\ dpc' = IF ch = ESC THEN "esc_poll"
                            ELSE IF is_control(ch) THEN "ctrl_poll"
                            ELSE "returned"
    /\ UNCHANGED <<kvars, qvars, pvars, sink, dpass, dleft>>

\* while select.select([sys.stdin], [], [], 0.15)[0]: something is there
EscPollReady ==
    /\ dpc = "esc_poll"
    /\ readable
    /\ dpc' = "esc_read"
    /\ UNCHANGED <<kvars, qvars, pvars, sink, dfirst, dpass, dfd, dbuf, dleft>>

\* the poll times out: the pass is over; after the last pass, return None
EscPollTimeout ==
    /\ dpc = "esc_poll"
    /\ ~readable
    /\ dpass' = dpass + 1
    /\ dpc' = IF dpass + 1 = ESC_PASSES THEN "returned" ELSE "esc_poll"
    /\ UNCHANGED <<kvars, qvars, pvars, sink, dfirst, dfd, dbuf, dleft>>

\* esc_ch = sys.stdin.read(1); ord(esc_ch)
EscRead ==
    /\ dpc = "esc_read"
    /\ IF reads_nothing
       THEN dpc' = "raised" /\ UNCHANGED <<dfd, dbuf>>
       ELSE dpc' = "esc_poll" /\ read_one
    /\ UNCHANGED <<kvars, qvars, pvars, sink, dfirst, dpass, dleft>>

\* while select.select([sys.stdin], [], [], 0.05)[0]: something is there
CtrlPollReady ==
    /\ dpc = "ctrl_poll"
    /\ readable
    /\ dpc' = "ctrl_read"
    /\ UNCHANGED <<kvars, qvars, pvars, sink, dfirst, dpass, dfd, dbuf, dleft>>

\* the poll times out: return None
CtrlPollTimeout ==
    /\ dpc = "ctrl_poll"
    /\ ~readable
    /\ dpc' = "returned"
    /\ UNCHANGED <<kvars, qvars, pvars, sink, dfirst, dpass, dfd, dbuf, dleft>>

\* ctrl_ch = sys.stdin.read(1); ord(ctrl_ch)
CtrlRead ==
    /\ dpc = "ctrl_read"
    /\ IF reads_nothing
       THEN dpc' = "raised" /\ UNCHANGED <<dfd, dbuf>>
       ELSE dpc' = "ctrl_poll" /\ read_one
    /\ UNCHANGED <<kvars, qvars, pvars, sink, dfirst, dpass, dleft>>

GetKeyStep ==
    \/ ReadFirst
    \/ EscPollReady
    \/ EscPollTimeout
    \/ EscRead
    \/ CtrlPollReady
    \/ CtrlPollTimeout
    \/ CtrlRead

NextDrain ==
    \/ Arrive1
    \/ ReadFirst
    \/ EscPollReady
    \/ EscPollTimeout
    \/ EscRead
    \/ CtrlPollReady
    \/ CtrlPollTimeout
    \/ CtrlRead

\* get_key keeps running; the terminal sends when it likes
SpecDrain == InitDrain /\ [][NextDrain]_vars /\ WF_vars(GetKeyStep)

\* C11 as claimed: once get_key has read an escape or control byte, it
\* leaves the drain, on every stream: it comes to its end (it returns None,
\* or it raises at end of input as in C10)
C11_DrainEnds ==
    (dpc \in DrainPoints) ~> (dpc \in {"returned", "raised"})

\* ------------------------------------------------------------------------
\* run_practice: the navigator
\* ------------------------------------------------------------------------
\* a call that never writes
save_practice_time_skipped(file) == file

\* save_practice_time: one call appends the start and the end marker
save_practice_time(file) == [file EXCEPT !.practice = count_up(@)]

\* a back key that is taken at the first card too
can_go_back_always(cursor) == cursor >= 0

\* ... and i > 0
can_go_back(cursor) == cursor > 0

\* an advance that skips a card
advance_two(cursor) == cursor + 2

\* i += 1, i -= 1
advance(cursor) == cursor + 1
back(cursor) == cursor - 1

total_words == Len(practice_words)

\* the sort key (w['group'], words.index(w)) of a is below that of b
key_below(grp, a, b) == grp[a] < grp[b] \/ (grp[a] = grp[b] /\ a < b)

\* the place of w in a sorted list: behind every entry whose key is not above
RECURSIVE insert_sorted(_, _, _)
insert_sorted(grp, sorted, w) ==
    IF sorted = <<>> \/ ~key_below(grp, w, sorted[Len(sorted)])
    THEN Append(sorted, w)
    ELSE Append(insert_sorted(grp, SubSeq(sorted, 1, Len(sorted) - 1), w),
                sorted[Len(sorted)])

\* a deck left in the order of the filter
sort_skipped(grp, deck) == deck

\* practice_words.sort(key=lambda w: (w['group'], words.index(w)))
RECURSIVE sort(_, _)
sort(grp, deck) ==
    IF deck = <<>>
    THEN <<>>
    ELSE insert_sorted(grp, sort(grp, SubSeq(deck, 1, Len(deck) - 1)),
                       deck[Len(deck)])

\* word = practice_words[i]
card(cursor) == practice_words[cursor + 1]

\* the cards shown are followed until the user goes back
Untracked == <<0>>

\* display_card(word, ...): the card at the cursor is shown, if there is one
seen_after(seen, cursor) ==
    IF seen # Untracked /\ cursor < total_words
    THEN Append(seen, card(cursor))
    ELSE seen

\* what check_for_quit(key) can answer, with what is typed after the key
quit_answers(key) == {quits(key, tail) : tail \in QuitTails}

\* the branch of the key loops of run_practice that takes this key
\* key.lower() on None raises AttributeError
practice_branch(key, cursor) ==
    IF is_none(key) THEN "none"
    ELSE IF key = SPACE THEN "space"
    ELSE IF key = None THEN "error"
    ELSE IF lower(key) = KEY_b /\ can_go_back(cursor) THEN "back"
    ELSE "check_for_quit"

\* the keys acted on, as long as they are the keys of Scenario
Lost == <<None>>
Scenario == <<SPACE, SPACE, SPACE, SPACE, SPACE, SPACE, SPACE, SPACE, KEY_b>>

follow(hist, key) ==
    IF hist # Lost /\ Len(hist) < Len(Scenario) /\ Scenario[Len(hist) + 1] = lower(key)
    THEN Append(hist, lower(key))
    ELSE Lost

\* while i < total_words: show the card at the cursor; after the last card,
\* save_practice_time and the closing screen
show_next(cursor) ==
    IF cursor < total_words
    THEN /\ ppc' = "question"
         /\ current_num' = cursor + 1
         /\ sink' = sink
    ELSE /\ ppc' = "complete"
         /\ current_num' = current_num
         /\ sink' = save_practice_time(sink)

PracticeDecks == {[j \in 1..n |-> j] : n \in 0..MaxCards}

\* run_practice is entered with a filtered deck of words of one group
PracticeEntered ==
    /\ practice_words \in PracticeDecks
    /\ group = [w \in 1..Len(practice_words) |-> 1]
    /\ pseen = <<>>
    /\ i = 0
    /\ current_num = 0
    /\ ppc = "start"
    /\ pkey = None
    /\ phist = <<>>

InitPractice == PracticeEntered /\ QuizIdle /\ KeyIdle /\ DrainIdle

\* if not practice_words: return
PracticeEmpty ==
    /\ ppc = "start"
    /\ no_words(practice_words)
    /\ ppc' = "empty"
    /\ UNCHANGED <<kvars, qvars, dvars, sink, practice_words, group, pseen, i,
                   current_num, pkey, phist>>

\* practice_words.sort(...); i = 0; the first card
StartPractice ==
    /\ ppc = "start"
    /\ ~no_words(practice_words)
    /\ practice_words' = sort(group, practice_words)
    /\ pseen' = <<sort(group, practice_words)[1]>>
    /\ i' = 0
    /\ show_next(0)
    /\ UNCHANGED <<kvars, qvars, dvars, group, pkey, phist>>

PracticeWaits == {"question", "answer"}

\* key is None: continue; a key no branch takes: the loop reads again
PracticeIgnore ==
    /\ ppc \in PracticeWaits
    /\ \E key \in KeyResults :
          /\ \/ practice_branch(key, i) = "none"
             \/ practice_branch(key, i) = "check_for_quit"
                   /\ FALSE \in quit_answers(key)
          /\ pkey' = key
    /\ UNCHANGED <<kvars, qvars, dvars, sink, practice_words, group, pseen, i,
                   current_num, ppc, phist>>

\* if key == ' ': break, at the question: show the answer
PracticeReveal ==
    /\ ppc = "question"
    /\ \E key \in KeyResults :
          /\ practice_branch(key, i) = "space"
          /\ pkey' = key
          /\ phist' = follow(phist, key)
    /\ ppc' = "answer"
    /\ UNCHANGED <<kvars, qvars, dvars, sink, practice_words, group, pseen, i,
                   current_num>>

\* if key == ' ': i += 1, at the answer
PracticeAdvance ==
    /\ ppc = "answer"
    /\ \E key \in KeyResults :
          /\ practice_branch(key, i) = "space"
          /\ pkey' = key
          /\ phist' = follow(phist, key)
    /\ i' = advance(i)
    /\ show_next(advance(i))
    /\ pseen' = seen_after(pseen, advance(i))
    /\ UNCHANGED <<kvars, qvars, dvars, practice_words, group>>

\* elif key.lower() == 'b' and i > 0: i -= 1, at either step
PracticeBack ==
    /\ ppc \in PracticeWaits
    /\ \E key \in KeyResults :
          /\ practice_branch(key, i) = "back"
          /\ pkey' = key
          /\ phist' = follow(phist, key)
    /\ i' = back(i)
    /\ show_next(back(i))
    /\ pseen' = Untracked
    /\ UNCHANGED <<kvars, qvars, dvars, practice_words, group>>

\* elif check_for_quit(key): save_practice_time(...); return
PracticeQuit ==
    /\ ppc \in PracticeWaits
    /\ \E key \in KeyResults :
          /\ practice_branch(key, i) = "check_for_quit"
          /\ TRUE \in quit_answers(key)
          /\ pkey' = key
          /\ phist' = follow(phist, key)
    /\ sink' = save_practice_time(sink)
    /\ ppc' = IF ppc = "question" THEN "quit_question" ELSE "quit_answer"
    /\ UNCHANGED <<kvars, qvars, dvars, practice_words, group, pseen, i,
                   current_num>>

NextPractice ==
    \/ PracticeEmpty
    \/ StartPractice
    \/ PracticeIgnore
    \/ PracticeReveal
    \/ PracticeAdvance
    \/ PracticeBack
    \/ PracticeQuit

SpecPractice == InitPractice /\ [][NextPractice]_vars

\* ------------------------------------------------------------------------
\* Properties of run_practice
\* ------------------------------------------------------------------------
\* C12: with the cursor at 0, a step on the key b or B at the question or at
\* the answer leaves the cursor, the step (question or answer) and the
\* results file as they are
C12_BackAtFirstCard ==
    [][(ppc \in PracticeWaits /\ i = 0 /\ lower(pkey') = KEY_b)
          => UNCHANGED <<i, ppc, current_num, sink>>]_vars

\* b was pressed at the answer of the first card, and the answer still shows
C12_Witness ==
    /\ ppc = "answer"
    /\ i = 0
    /\ lower(pkey) = KEY_b
    /\ phist = <<SPACE>>

\* C13: the cursor stays within 0..N and a card is on screen only while the
\* cursor is below N; space at the answer adds exactly 1 to the cursor, b or
\* B with the cursor above 0 takes exactly 1 from it at either step, space
\* at the question leaves it; and four reveal-advance pairs followed by one
\* back, from the first card, leave the cursor at 3
CursorInRange ==
    /\ 0 <= i
    /\ i <= total_words
    /\ (ppc \in PracticeWaits => i < total_words)
    /\ (phist = Scenario => i = 3)

CursorStep ==
    ppc \in PracticeWaits =>
        /\ (ppc = "answer" /\ pkey' = SPACE) => i' = i + 1
        /\ (ppc = "question" /\ pkey' = SPACE) => i' = i
        /\ (lower(pkey') = KEY_b /\ i > 0) => i' = i - 1

C13_CursorArithmetic == []CursorInRange /\ [][CursorStep]_vars

\* the keys of the scenario were pressed on a deck of MaxCards cards
C13_Witness ==
    /\ total_words = MaxCards
    /\ phist = Scenario
    /\ lower(pkey) = KEY_b
    /\ ppc = "question"
    /\ current_num = 4

Ended == {"quit_question", "quit_answer", "complete"}

\* C14: a practice session that has ended, by quit at the question, by quit
\* at the answer or by completion, has called save_practice_time exactly
\* once; before its end it has not called it; and no session calls
\* save_result
C14_OneDuration ==
    /\ ppc \in Ended => sink.practice = 1
    /\ ppc \in {"start", "empty"} \cup PracticeWaits => sink.practice = 0
    /\ sink.yes = 0
    /\ sink.no = 0

\* a session ended by quit at the answer of a card after the first
C14_Witness ==
    /\ ppc = "quit_answer"
    /\ i > 0
    /\ sink.practice = 1

\* ------------------------------------------------------------------------
\* Sessions: a quiz or a practice session from its start to its end
\* ------------------------------------------------------------------------
InitSession == Init \/ InitPractice

NextSession ==
    \/ EmptyDeck
    \/ StartQuiz
    \/ Dequeue
    \/ StartDrainRound
    \/ NextPending
    \/ Complete
    \/ Reveal
    \/ Quit
    \/ IgnoreKey
    \/ JudgeCorrect
    \/ JudgeIncorrect
    \/ DrainCorrect
    \/ DrainIncorrect
    \/ PracticeEmpty
    \/ StartPractice
    \/ PracticeIgnore
    \/ PracticeReveal
    \/ PracticeAdvance
    \/ PracticeBack
    \/ PracticeQuit

SpecSession == InitSession /\ [][NextSession]_vars

QuizEnded == pc \in {"ended", "complete"}
PracticeEnded == ppc \in Ended

\* the rows of the results file that hold a result of the whole session:
\* the practice markers; save_result rows hold one answer each
aggregate_writes == sink.practice

\* C15 as claimed: a session that has ended, quiz or practice, has written
\* aggregate results to the results file exactly once
C15_OneAggregateWrite ==
    (QuizEnded \/ PracticeEnded) => aggregate_writes = 1

\* C15: a practice session that has ended has called save_practice_time
\* exactly once; a quiz that has ended has called show_final_score exactly
\* once, with its counters, and the results file holds one save_result row
\* for each judgment and no row for the session as a whole
C15_EndOfSession ==
    /\ PracticeEnded => (sink.practice = 1 /\ sink.yes = 0 /\ sink.no = 0)
    /\ QuizEnded =>
          /\ Len(score) = 1
          /\ score[1].correct = correct_count
          /\ score[1].incorrect = incorrect_count
          /\ score[1].complete = (pc = "complete")
          /\ sink.yes = correct_count
          /\ sink.no = incorrect_count
          /\ sink.practice = 0
    /\ ~(QuizEnded \/ PracticeEnded) => (score = <<>> /\ sink.practice = 0)

\* a quiz ended by quit after a correct and an incorrect judgment
C15_Witness ==
    /\ pc = "ended"
    /\ Len(score) = 1
    /\ sink.yes > 0
    /\ sink.no > 0

\* ------------------------------------------------------------------------
\* MainQueue and RepeatRegistry
\* ------------------------------------------------------------------------
QueueKeys == {front[queue[j].w] : j \in 1..Len(queue)}
RegistryKeys == {repeat_words[j].key : j \in 1..Len(repeat_words)}

\* C16: no identity is in MainQueue and in RepeatRegistry at the same time,
\* and every entry of either is an item of the filtered deck, filed under
\* its own identity
C16_QueueRegistryDisjoint ==
    /\ QueueKeys \cap RegistryKeys = {}
    /\ \A j \in 1..Len(queue) : queue[j].w \in Items
    /\ \A j \in 1..Len(repeat_words) :
          /\ repeat_words[j].w \in Items
          /\ repeat_words[j].key = front[repeat_words[j].w]

\* a repeat has come due and is back in the queue while another waits
C16_Witness ==
    /\ pc = "question"
    /\ \E j \in 1..Len(queue) : queue[j].streak = 2
    /\ repeat_words # <<>>

\* the sessions on decks in which items share an identity (a pinyin)
DupDecks == {[j \in 1..n |-> j] : n \in {0} \cup (2..MaxDeck)}

InitDup ==
    /\ quiz_words \in DupDecks
    /\ front \in [1..Len(quiz_words) -> 1..Max(Len(quiz_words) - 1, 1)]
    /\ queue = <<>>
    /\ repeat_words = <<>>
    /\ position = 0
    /\ correct_count = 0
    /\ incorrect_count = 0
    /\ word = 0
    /\ needed_correct = 0
    /\ pending = <<>>
    /\ pidx = 0
    /\ score = <<>>
    /\ pc = "start"
    /\ judged = "none"
    /\ shown = [w \in 1..Len(quiz_words) |-> 0]
    /\ missDue = [w \in 1..Len(quiz_words) |-> NoDue]
    /\ retired0 = {}
    /\ tally = [w \in 1..Len(quiz_words) |-> NoMiss]
    /\ lastAt = [w \in 1..Len(quiz_words) |-> NoDue]
    /\ sink = NoWrites
    /\ KeyIdle
    /\ PracticeIdle
    /\ DrainIdle

SpecDup == InitDup /\ [][Next]_vars

OnePerKey ==
    \A j, k \in 1..Len(repeat_words) :
        repeat_words[j].key = repeat_words[k].key => j = k

\* a judgment that schedules a repeat: a miss, or a correct answer on a
\* streak above 1
Schedules ==
    /\ pc \in {"answer", "drain_answer"}
    /\ pc' \in {"loop", "drain"}
    /\ judged' = "incorrect" \/ needs_repeat(needed_correct)

ReplacesEntry ==
    (Schedules /\ front[word] \in RegistryKeys) =>
        /\ Len(repeat_words') = Len(repeat_words)
        /\ \E j \in 1..Len(repeat_words') :
              /\ repeat_words'[j].key = front[word]
              /\ repeat_words'[j].w = word
              /\ repeat_words'[j].streak =
                    IF judged' = "incorrect"
                    THEN streak_after_miss(needed_correct)
                    ELSE streak_after_correct(needed_correct)
        /\ \A j \in 1..Len(repeat_words) :
              repeat_words[j].key # front[word] => repeat_words'[j] = repeat_words[j]

\* C17: RepeatRegistry never holds two entries for one identity, and a
\* repeat scheduled for an identity it holds takes the place of the entry
\* held: the registry is as long as before and holds the new item and streak
C17_OnePerIdentity == []OnePerKey /\ [][ReplacesEntry]_vars

\* an item was missed and its repeat is gone: the registry holds, under its
\* identity, the repeat of another item
C17_Witness ==
    /\ pc = "loop"
    /\ \E w \in Items :
          /\ missDue[w] # NoDue
          /\ ~InQueue(w)
          /\ ~InRegistry(w)
          /\ front[w] \in RegistryKeys

\* ------------------------------------------------------------------------
\* Empty decks
\* ------------------------------------------------------------------------
\* C18: with an empty filtered deck run_quiz and run_practice return at
\* once: no queue is made, no card is presented, no session key is acted
\* on, and nothing is written: no final score, no row of the results file
C18_EmptyDeck ==
    /\ (pc # "idle" /\ quiz_words = <<>>) =>
          /\ pc \in {"start", "empty"}
          /\ queue = <<>>
          /\ repeat_words = <<>>
          /\ Presented = 0
          /\ judged = "none"
          /\ score = <<>>
          /\ sink = NoWrites
    /\ (ppc # "idle" /\ practice_words = <<>>) =>
          /\ ppc \in {"start", "empty"}
          /\ current_num = 0
          /\ pkey = None
          /\ sink = NoWrites

\* run_quiz has returned with "No words found"
C18_Witness ==
    /\ pc = "empty"
    /\ quiz_words = <<>>
    /\ sink = NoWrites

\* ------------------------------------------------------------------------
\* The key loops: which branch takes a key
\* ------------------------------------------------------------------------
\* check_for_quit(key) answers, whatever is typed after the key
quit_answered(key) == quit_answers(key) \in {{TRUE}, {FALSE}, {TRUE, FALSE}}

\* the step of run_quiz that a branch leads to can be taken
quiz_outcome(at, branch, key) ==
    CASE branch = "none" -> ENABLED IgnoreKey
      [] branch = "space" ->
            IF at \in {"question", "drain_question"} THEN ENABLED Reveal
            ELSE IF at = "answer" THEN ENABLED JudgeCorrect
            ELSE ENABLED DrainCorrect
      [] branch = "x" ->
            IF at = "answer" THEN ENABLED JudgeIncorrectAny
            ELSE ENABLED DrainIncorrectAny
      [] branch = "check_for_quit" ->
            /\ ~handled(at, key)
            /\ quit_answered(key)
      [] OTHER -> FALSE

\* the step of run_practice that a branch leads to can be taken
practice_outcome(at, branch, key) ==
    CASE branch = "none" -> ENABLED PracticeIgnore
      [] branch = "space" ->
            IF at = "question" THEN ENABLED PracticeReveal
            ELSE ENABLED PracticeAdvance
      [] branch = "back" -> ENABLED PracticeBack
      [] branch = "check_for_quit" -> quit_answered(key)
      [] OTHER -> FALSE

\* C19: at every wait point of run_quiz (question and answer, main loop and
\* drain phase) and of run_practice, every key get_key can return, None
\* included, is taken by a branch of the loop, no branch raises, the step
\* the branch leads to can be taken, and check_for_quit answers true or
\* false on the keys that reach it
C19_Total ==
    /\ pc \in WaitPoints =>
          /\ \A key \in KeyResults : quiz_outcome(pc, quiz_branch(pc, key), key)
          /\ reaches_quit_check(pc, TRUE)
          /\ reaches_quit_check(pc, FALSE)
    /\ ppc \in PracticeWaits =>
          \A key \in KeyResults :
              practice_outcome(ppc, practice_branch(key, i), key)

\* the answer of a repeat is on screen in the drain phase
C19_Witness ==
    /\ pc = "drain_answer"
    /\ needed_correct = 2
    /\ \A key \in KeyResults : quiz_branch(pc, key) # "error"

\* ------------------------------------------------------------------------
\* save_result fails
\* ------------------------------------------------------------------------
\* if key == ' ': correct_count += 1; save_result raises: the error leaves
\* run_quiz
CorrectSaveFails ==
    /\ pc \in {"answer", "drain_answer"}
    /\ quiz_branch(pc, SPACE) = "space"
    /\ correct_count' = count_up(correct_count)
    /\ pc' = "failed"
    /\ UNCHANGED <<kvars, pvars, dvars, sink, quiz_words, front, queue,
                   repeat_words, position, incorrect_count, word, needed_correct,
                   pending, pidx, score, judged, shown, missDue, retired0, tally, lastAt>>

\* elif key.lower() == 'x': incorrect_count += 1; save_result raises
IncorrectSaveFails ==
    /\ pc \in {"answer", "drain_answer"}
    /\ quiz_branch(pc, KEY_x) = "x"
    /\ incorrect_count' = count_up(incorrect_count)
    /\ pc' = "failed"
    /\ UNCHANGED <<kvars, pvars, dvars, sink, quiz_words, front, queue,
                   repeat_words, position, correct_count, word, needed_correct,
                   pending, pidx, score, judged, shown, missDue, retired0, tally, lastAt>>

NextSink ==
    \/ EmptyDeck
    \/ StartQuiz
    \/ Dequeue
    \/ StartDrainRound
    \/ NextPending
    \/ Complete
    \/ Reveal
    \/ Quit
    \/ IgnoreKey
    \/ JudgeCorrect
    \/ JudgeIncorrect
    \/ DrainCorrect
    \/ DrainIncorrect
    \/ CorrectSaveFails
    \/ IncorrectSaveFails

SpecSink == Init /\ [][NextSink]_vars

\* C20 as claimed: when save_result has failed, correct_count and
\* incorrect_count are as before the judgment: they are the numbers of the
\* results the file has got
C20_CountersAsRecorded ==
    pc = "failed" => (correct_count = sink.yes /\ incorrect_count = sink.no)

\* ------------------------------------------------------------------------
\* Reappearance of a missed item
\* ------------------------------------------------------------------------
\* the item w was judged incorrect and the program is about to go on
JustMissed(w) == judged = "incorrect" /\ word = w /\ pc \in {"loop", "drain"}

\* the item w is presented: its question is on screen
OnScreen(w) == pc \in {"question", "drain_question"} /\ word = w

quit_report ==
    [correct |-> correct_count, incorrect |-> incorrect_count, complete |-> FALSE]

\* the quit phrase can be detected at every wait point
QuitAnywhere == pc \in WaitPoints => reaches_quit_check(pc, TRUE)

\* a session ended by quit has reported once, with the counters it holds
QuitReported == pc = "ended" => score = <<quit_report>>

\* the step that ends the session reports the counters of that moment once
\* and records, presents and schedules nothing
QuitStep ==
    (pc \in WaitPoints /\ pc' = "ended") =>
        /\ score' = Append(score, quit_report)
        /\ UNCHANGED <<sink, shown, correct_count, incorrect_count, queue,
                       repeat_words, position, word, pending, pidx>>

\* nothing happens after the session has ended
AfterQuit == pc = "ended" => UNCHANGED <<qvars, sink>>

\* C22: a quit detected at any wait point of run_quiz ends the session at
\* once: the counts of that moment are reported exactly once, no result is
\* recorded for the card on screen, no further card is presented and
\* counters, queue and registry do not change any more
C22_Quit ==
    /\ [](QuitAnywhere /\ QuitReported)
    /\ [][QuitStep /\ AfterQuit]_vars

\* C22 witness: the user has quit in the drain phase after a miss
C22_Witness ==
    /\ pc = "ended"
    /\ pending # <<>>
    /\ incorrect_count >= 1
    /\ repeat_words # <<>>

\* ------------------------------------------------------------------------
\* Session start
\* ------------------------------------------------------------------------
\* run_quiz has set the session up and has not dequeued an item yet
AtStart == pc = "loop" /\ word = 0

\* how often the item w is in the main queue
times_queued(w) == Cardinality({j \in 1..Len(queue) : queue[j].w = w})

\* C23: at session start the main queue is a permutation of the filtered
\* deck (each item exactly once) with required streak 0 on every entry,
\* position is 0, the registry is empty and both counters are 0
C23_SessionStart ==
    AtStart =>
        /\ Len(queue) = Len(quiz_words)
        /\ \A k \in 1..Len(quiz_words) : times_queued(quiz_words[k]) = 1
        /\ \A j \in 1..Len(queue) : queue[j].streak = 0
        /\ position = 0
        /\ repeat_words = <<>>
        /\ correct_count = 0
        /\ incorrect_count = 0

\* C23 witness: a session starts with a deck of three items in another
\* order than the file's
C23_Witness ==
    /\ AtStart
    /\ Len(queue) = 3
    /\ queue[1].w = 3
    /\ queue[2].w = 1

\* ------------------------------------------------------------------------
\* The due scan
\* ------------------------------------------------------------------------
\* run_quiz is entered with a deck long enough for a repeat to come due
\* while four or more items wait in the main queue
InitScan ==
    /\ QuizEntered({[j \in 1..ScanDeck |-> j]})
    /\ KeyIdle
    /\ PracticeIdle
    /\ DrainIdle

NextScan ==
    \/ StartQuiz
    \/ Dequeue
    \/ StartDrainRound
    \/ NextPending
    \/ Complete
    \/ Reveal
    \/ Quit
    \/ IgnoreKey
    \/ JudgeCorrect
    \/ JudgeIncorrect
    \/ DrainCorrect
    \/ DrainIncorrect

SpecScan == InitScan /\ [][NextScan]_vars

\* the registry entries that are due at this dequeue, and the others
DueNow == SelectSeq(repeat_words, LAMBDA r : r.pos <= position)
StaysNow == SelectSeq(repeat_words, LAMBDA r : r.pos > position)

\* the queue without the entries of these items
without(q, ws) == SelectSeq(q, LAMBDA e : e.w \notin ws)

\* the highest index the k-th of n due entries can have after the scan: it
\* goes in at 0..min(3, length) and each later insertion moves it by one
last_slot(len, k, n) == Min(3, len + (k - 1)) + (n - k)

DueScan ==
    (pc = "loop" /\ pc' = "question") =>
        /\ repeat_words' = StaysNow
        /\ \A j \in 1..Len(repeat_words') : repeat_words'[j].pos > position'
        /\ Len(queue') = Len(queue) - 1 + Len(DueNow)
        /\ without(queue', {DueNow[k].w : k \in 1..Len(DueNow)}) = Tail(queue)
        /\ \A k \in 1..Len(DueNow) :
              \E j \in 1..Len(queue') :
                 /\ queue'[j] = Entry(DueNow[k].w, DueNow[k].streak)
                 /\ j - 1 <= last_slot(Len(queue) - 1, k, Len(DueNow))

\* C24: at each dequeue of the main loop every registry entry with
\* pos <= position leaves the registry and enters the main queue with its
\* streak unchanged at an index in 0..min(3, queue length); the entries with
\* pos > position stay untouched, so no registry entry is due when the
\* card is shown
C24_DueScan == [][DueScan]_vars

\* C24 witness: a repeat that came due at this dequeue is at index 3 of a
\* queue of five or more entries while another repeat stays in the registry
C24_Witness ==
    /\ pc = "question"
    /\ Len(queue) >= 5
    /\ queue[4].streak = 2
    /\ missDue[queue[4].w] = position
    /\ repeat_words # <<>>

\* ------------------------------------------------------------------------
\* A correct judgment in the main loop
\* ------------------------------------------------------------------------
\* the step of "if key == ' '" at an answer of the main loop
CorrectInMain == pc = "answer" /\ pc' = "loop" /\ judged' = "correct"

\* the repeat of the item on screen with one correct answer less to give,
\* due delay positions from now
repeat_of_word(delay) ==
    [key |-> front[word], w |-> word, streak |-> needed_correct - 1,
     pos |-> position + delay]

CorrectStep ==
    CorrectInMain =>
        /\ correct_count' = correct_count + 1
        /\ incorrect_count' = incorrect_count
        /\ queue' = queue
        /\ IF needed_correct > 1
           THEN \E delay \in 5..10 :
                   repeat_words' = Append(repeat_words, repeat_of_word(delay))
           ELSE repeat_words' = repeat_words

\* C25: a correct judgment in the main loop adds exactly 1 to the count of
\* correct answers and leaves the count of incorrect ones; with a required
\* streak s > 1 it registers a repeat with streak s - 1, due 5 to 10
\* positions from now; with s <= 1 it adds nothing to queue or registry
C25_CorrectJudgment == [][CorrectStep]_vars

\* C25 witness: a repeat with streak 2 was answered correctly in the main
\* loop and waits in the registry with streak 1
C25_Witness ==
    /\ pc = "loop"
    /\ judged = "correct"
    /\ needed_correct = 2
    /\ queue # <<>>
    /\ \E j \in 1..Len(repeat_words) :
          repeat_words[j].w = word /\ repeat_words[j].streak = 1

\* ------------------------------------------------------------------------
\* Position
\* ------------------------------------------------------------------------
\* an item dequeued from the main queue is judged: the answer loop breaks
JudgedInMain == pc = "answer" /\ pc' = "loop"

\* position goes up by one with each item of the main queue that is judged
\* and is left alone by every other step
PositionStep ==
    /\ position' \in {position, position + 1}
    /\ (position' = position + 1) <=> JudgedInMain

\* before the drain phase position counts the items judged so far
PositionCounts ==
    (pending = <<>> /\ pc \in {"loop", "question", "answer"}) =>
        Presented = position + (IF pc = "loop" THEN 0 ELSE 1)

\* C26: position never goes down, changes only by +1 and goes up exactly
\* once for each item dequeued from the main queue and judged; reveal keys,
\* ignored keys, the due scan and the drain phase leave it unchanged
C26_Position == []PositionCounts /\ [][PositionStep]_vars

\* C26 witness: three items were judged in the main loop and the second
\* card of the drain phase is on screen
C26_Witness ==
    /\ pc = "drain_question"
    /\ position = 3
    /\ Presented = 5

\* ------------------------------------------------------------------------
\* Terminal state
\* ------------------------------------------------------------------------
\* show_final_score was called with complete=True
ReportedComplete == \E j \in 1..Len(score) : score[j].complete

\* run_quiz has returned after it presented cards
Returned == pc \in {"ended", "complete"}

\* C27: natural completion is reported only with the main queue and the
\* registry both empty; a session that ends with either non-empty has ended
\* by quit
C27_TerminalState ==
    /\ ReportedComplete =>
          pc = "complete" /\ queue = <<>> /\ repeat_words = <<>>
    /\ pc = "complete" => ReportedComplete
    /\ (Returned /\ (queue # <<>> \/ repeat_words # <<>>)) =>
          pc = "ended" /\ score = <<quit_report>>

\* C27 witness: natural completion after a drain phase that followed misses
C27_Witness ==
    /\ pc = "complete"
    /\ ReportedComplete
    /\ incorrect_count = MaxIncorrect
    /\ pending # <<>>

\* ------------------------------------------------------------------------
\* Drain rounds
\* ------------------------------------------------------------------------
DrainPhase == pc \in {"drain", "drain_question", "drain_answer"}

\* the items of the round that have been presented, and those to come
HandledInRound == {pending[j].w : j \in 1..pidx}
ToComeInRound == {pending[j].w : j \in (pidx + 1)..Len(pending)}

\* in a round the card on screen is the pidx-th pending entry, no item is
\* pending twice, and the registry holds only items this round has handled
RoundShape ==
    DrainPhase =>
        /\ pidx \in 1..Len(pending)
        /\ word = pending[pidx].w
        /\ needed_correct = pending[pidx].streak
        /\ \A a, b \in 1..Len(pending) : a # b => pending[a].w # pending[b].w
        /\ \A j \in 1..Len(repeat_words) :
              /\ repeat_words[j].w \in HandledInRound
              /\ repeat_words[j].w \notin ToComeInRound
        /\ pc # "drain" => ~InRegistry(word)

\* a round starts at the head of "while repeat_words:" and takes every
\* registry entry, whatever its due position
RoundStart ==
    (pending' # pending \/ (pc' = "drain_question" /\ pidx' = 1 /\ pc # "drain_question")) =>
        /\ AtDrainHead
        /\ Len(pending') = Len(repeat_words)
        /\ \A j \in 1..Len(repeat_words) :
              pending'[j] = Entry(repeat_words[j].w, repeat_words[j].streak)
        /\ repeat_words' = <<>>
        /\ pidx' = 1

\* a card of the drain phase is presented: the next pending entry, once
RoundPresents ==
    (shown' # shown /\ DrainPhase') =>
        /\ pc' = "drain_question"
        /\ pidx' = 1 \/ (pidx' = pidx + 1 /\ pending' = pending)
        /\ shown' = [shown EXCEPT ![pending'[pidx'].w] = @ + 1]

\* the registry after a judgment of the drain phase
RoundJudges ==
    (pc = "drain_answer" /\ pc' = "drain") =>
        /\ pending' = pending /\ pidx' = pidx
        /\ judged' = "correct" /\ needed_correct > 1 =>
              repeat_words' = Append(repeat_words,
                  [key |-> front[word], w |-> word,
                   streak |-> needed_correct - 1, pos |-> 0])
        /\ judged' = "correct" /\ needed_correct <= 1 =>
              repeat_words' = repeat_words
        /\ judged' = "incorrect" =>
              repeat_words' = Append(repeat_words,
                  [key |-> front[word], w |-> word, streak |-> 2, pos |-> 0])

RoundStep == RoundStart /\ RoundPresents /\ RoundJudges

\* C28: once the main queue is empty each drain round presents every entry
\* pending at its start exactly once, whatever its due position; a correct
\* answer on streak s > 1 re-adds the item with s - 1 for the next round, a
\* correct answer on s <= 1 retires it, an incorrect answer re-adds it with
\* streak 2; an item re-added in a round is not presented again in that round
C28_DrainRound == []RoundShape /\ [][RoundStep]_vars

\* C28 witness: in the second round the second pending entry is on screen
\* with one correct answer left to give, the first has retired in this round
C28_Witness ==
    /\ pc = "drain_question"
    /\ Len(quiz_words) <= MaxDeck
    /\ pidx = 2
    /\ needed_correct = 1
    /\ tally[pending[1].w] = 2
    /\ repeat_words = <<>>

\* ------------------------------------------------------------------------
\* Practice order
\* ------------------------------------------------------------------------
\* the words of a set of places in the file, in file order
RECURSIVE in_file_order(_, _)
in_file_order(places, n) ==
    IF n = 0
    THEN <<>>
    ELSE IF n \in places
         THEN Append(in_file_order(places, n - 1), n)
         ELSE in_file_order(places, n - 1)

\* run_practice is entered with a file of FileLen words in groups 1..MaxGroup
\* and a filter (all groups, one group, or the words with mistakes) that
\* keeps some of them, in file order
InitOrder ==
    /\ group \in [1..FileLen -> 1..MaxGroup]
    /\ practice_words \in {in_file_order(places, FileLen) : places \in SUBSET (1..FileLen)}
    /\ pseen = <<>>
    /\ i = 0
    /\ current_num = 0
    /\ ppc = "start"
    /\ pkey = None
    /\ phist = <<>>
    /\ QuizIdle
    /\ KeyIdle
    /\ DrainIdle

SpecOrder == InitOrder /\ [][NextPractice]_vars

\* the deck is ordered by group and, within a group, by place in the file
Ordered(deck) ==
    \A a, b \in 1..Len(deck) :
        a < b => \/ group[deck[a]] < group[deck[b]]
                 \/ group[deck[a]] = group[deck[b]] /\ deck[a] < deck[b]

\* the cards are presented from the first on, in the order of the deck, and
\* all of them have been presented once when the session completes
PresentedInOrder ==
    (ppc \in {"question", "answer", "complete"} /\ pseen # Untracked) =>
        /\ Len(pseen) = IF ppc = "complete" THEN total_words ELSE i + 1
        /\ pseen = SubSeq(practice_words, 1, Len(pseen))

\* the sort keeps the items of the filtered deck, each once, and the deck
\* is not reordered later
SortStep ==
    /\ ppc = "start" =>
          /\ Len(practice_words') = Len(practice_words)
          /\ {practice_words'[j] : j \in 1..Len(practice_words')}
                = {practice_words[j] : j \in 1..Len(practice_words)}
    /\ ppc # "start" => practice_words' = practice_words

\* C29: run_practice presents the filtered deck ordered by group and, within
\* a group, by file order; with only reveal and advance keys the presented
\* sequence is exactly that order, every item shown once
C29_PracticeOrder ==
    /\ [](ppc \notin {"start", "empty"} => Ordered(practice_words))
    /\ []PresentedInOrder
    /\ [][SortStep]_vars

\* C29 witness: a file with groups 2, 1, 2 was practised to the end and the
\* cards came as second, first, third word of the file
C29_Witness ==
    /\ ppc = "complete"
    /\ group = <<2, 1, 2>>
    /\ pseen = <<2, 1, 3>>

\* ------------------------------------------------------------------------
\* Two correct answers after a miss
\* ------------------------------------------------------------------------
\* the item was never judged incorrect
NeverMissed(w) == tally[w] = NoMiss

HoldsKeyOf(w) == \E j \in 1..Len(repeat_words) : repeat_words[j].key = front[w]

\* while an item is on screen, and so whenever a repeat is scheduled for it,
\* the registry holds nothing under its key
NoPendingForCard == pc \in WaitPoints => ~HoldsKeyOf(word)

\* every registry entry stays as it is or goes, with its streak, to the main
\* queue or to the pending list of a drain round
EntriesKept ==
    \A j \in 1..Len(repeat_words) :
        \/ \E k \in 1..Len(repeat_words') : repeat_words'[k] = repeat_words[j]
        \/ \E k \in 1..Len(queue') :
              /\ queue'[k] = Entry(repeat_words[j].w, repeat_words[j].streak)
              /\ repeat_words[j].pos <= position
        \/ /\ AtDrainHead /\ repeat_words' = <<>> /\ pidx' = 1
           /\ \E k \in 1..Len(pending') :
                 pending'[k] = Entry(repeat_words[j].w, repeat_words[j].streak)

\* C31: with unique keys the registry holds no entry for an item's key when
\* run_quiz schedules a repeat for it (main loop or drain phase), so no
\* pending repeat's streak or due position is ever lost
C31_NoOverwrite == []NoPendingForCard /\ [][EntriesKept]_vars

\* C31 witness: a repeat is scheduled for an item that came back after a
\* miss and was answered correctly, while another item's repeat waits
C31_Witness ==
    /\ pc \in {"loop", "drain"}
    /\ judged = "correct"
    /\ needed_correct = 2
    /\ HoldsKeyOf(word)
    /\ Len(repeat_words) >= 2

\* ------------------------------------------------------------------------
\* Streak domain
\* ------------------------------------------------------------------------
\* C32: every main queue entry has a required streak in {0, 1, 2} and every
\* registry entry a required streak in {1, 2}; no streak is negative or
\* above 2
C32_StreakDomain ==
    /\ \A j \in 1..Len(queue) : queue[j].streak \in {0, 1, 2}
    /\ \A j \in 1..Len(repeat_words) : repeat_words[j].streak \in {1, 2}
    /\ \A j \in 1..Len(pending) : pending[j].streak \in {1, 2}
    /\ needed_correct \in {0, 1, 2}

\* C32 witness: the main queue holds a repeat with streak 2 while the
\* registry holds a repeat with one correct answer left
C32_Witness ==
    /\ \E j \in 1..Len(queue) : queue[j].streak = 2
    /\ \E j \in 1..Len(repeat_words) : repeat_words[j].streak = 1

\* ------------------------------------------------------------------------
\* Conservation of the deck
\* ------------------------------------------------------------------------
\* how often the item w is in the registry and among the entries of the
\* drain round that are still to come
times_registered(w) ==
    Cardinality({j \in 1..Len(repeat_words) : repeat_words[j].w = w})
times_pending(w) ==
    Cardinality({j \in (pidx + 1)..Len(pending) : pending[j].w = w})

\* the card of w is on screen (it stays there when the user quits)
times_on_screen(w) ==
    IF pc \in WaitPoints \cup {"ended"} /\ word = w THEN 1 ELSE 0

\* w has retired: judged correct on its first presentation, or twice since
\* its last miss
times_retired(w) == IF w \in retired0 \/ tally[w] >= 2 THEN 1 ELSE 0

\* the session has set up its queue
SessionRuns == pc \notin {"idle", "start", "empty"}

\* C33: with unique keys each deck item is in exactly one of: the main
\* queue (once), the registry, the pending list of the drain round,
\* on screen, or retired; queued, pending and presented items never exceed
\* the deck size, no item is duplicated or dropped
C33_Conservation ==
    SessionRuns =>
        /\ \A w \in Items :
              times_queued(w) + times_registered(w) + times_pending(w)
                 + times_on_screen(w) + times_retired(w) = 1
        /\ \A j \in 1..Len(queue) : queue[j].w \in Items
        /\ \A j \in 1..Len(repeat_words) : repeat_words[j].w \in Items
        /\ Len(queue) + Len(repeat_words) <= Len(quiz_words)

\* C33 witness: in a drain round the second pending item is on screen, the
\* first has been re-added to the registry and another item has retired
C33_Witness ==
    /\ pc = "drain_question"
    /\ pidx = 2
    /\ repeat_words # <<>>
    /\ retired0 # {}

\* ------------------------------------------------------------------------
\* Counters and the results file
\* ------------------------------------------------------------------------
\* a judgment key is taken at an answer step
Judgment == pc \in {"answer", "drain_answer"} /\ pc' \in {"loop", "drain"}

\* one row for the card on screen, 'yes', and one more correct answer
CountsCorrect ==
    /\ correct_count' = correct_count + 1
    /\ incorrect_count' = incorrect_count
    /\ sink' = [sink EXCEPT !.yes = @ + 1, !.row = word]

\* one row for the card on screen, 'no', and one more incorrect answer
CountsIncorrect ==
    /\ incorrect_count' = incorrect_count + 1
    /\ correct_count' = correct_count
    /\ sink' = [sink EXCEPT !.no = @ + 1, !.row = word]

LogStep ==
    /\ Judgment => (CountsCorrect \/ CountsIncorrect)
    /\ ~Judgment => UNCHANGED <<correct_count, incorrect_count, sink>>

\* the counters are the numbers of rows of each kind
LogMatches == correct_count = sink.yes /\ incorrect_count = sink.no

\* C34: when the sink does not fail, correct_count is the number of
\* 'correct' rows written in the session and incorrect_count the number of
\* 'incorrect' rows; each judgment changes exactly one counter by 1 and
\* writes exactly one row for the presented item, no other key changes a
\* counter or writes a row
C34_CountersMatchLog == []LogMatches /\ [][LogStep]_vars

\* C34 witness: the second miss of a session was recorded in the drain
\* phase after a correct answer
C34_Witness ==
    /\ pc = "drain"
    /\ judged = "incorrect"
    /\ sink.row = word
    /\ sink.no = 2
    /\ sink.yes >= 1
    /\ incorrect_count = 2

\* ------------------------------------------------------------------------
\* Reveal before judge
\* ------------------------------------------------------------------------
QuestionSteps == {"question", "drain_question"}
AnswerSteps == {"answer", "drain_answer"}

\* the answer step of the presentation whose question is on screen
answer_of(at) == IF at = "question" THEN "answer" ELSE "drain_answer"

\* a row is written only at an answer step, the answer step is entered only
\* from the question of the same presentation by a space key, a question
\* step changes nothing of the schedule, and an answer step changes it only
\* by a judgment
RevealThenJudge ==
    /\ sink' # sink => pc \in AnswerSteps
    /\ shown' # shown => pc' \in QuestionSteps
    /\ (pc' \in AnswerSteps /\ pc' # pc) =>
          /\ pc \in QuestionSteps /\ pc' = answer_of(pc)
          /\ \E key \in KeyResults : quiz_branch(pc, key) = "space"
          /\ UNCHANGED <<word, needed_correct, shown>>
    /\ pc \in QuestionSteps =>
          /\ pc' \in {pc, answer_of(pc), "ended"}
          /\ UNCHANGED <<correct_count, incorrect_count, queue, repeat_words,
                         position, sink>>
    /\ (pc \in AnswerSteps /\ ~Judgment) =>
          /\ pc' \in {pc, "ended"}
          /\ UNCHANGED <<correct_count, incorrect_count, queue, repeat_words,
                         position, sink>>

\* at the question x, X and every key but space go to check_for_quit or are
\* dropped, and check_for_quit answers false on x and X; at the answer every
\* key but space, x and X does
OtherKeysIgnored ==
    /\ pc \in QuestionSteps =>
          \A key \in KeyResults \ {SPACE} :
              /\ quiz_branch(pc, key) \in {"none", "check_for_quit"}
              /\ (key # None /\ lower(key) = KEY_x) => quit_answers(key) = {FALSE}
    /\ pc \in AnswerSteps =>
          \A key \in KeyResults \ {SPACE} :
              (key = None \/ lower(key) # KEY_x) =>
                  quiz_branch(pc, key) \in {"none", "check_for_quit"}

\* C35: a result for an item is recorded only after the question step of
\* that presentation was left by a space key; at the question step x/X and
\* every key other than space and a completed quit phrase leave counters,
\* queue, registry and position unchanged; at the answer step every key
\* other than space, x/X and a completed quit phrase is ignored
C35_RevealBeforeJudge == []OtherKeysIgnored /\ [][RevealThenJudge]_vars

\* C35 witness: the answer of a repeat is on screen in the main loop after
\* answers of both kinds were recorded
C35_Witness ==
    /\ pc = "answer"
    /\ needed_correct = 2
    /\ sink.yes >= 1
    /\ sink.no >= 1
    /\ sink.row # word

\* ------------------------------------------------------------------------
\* Keys read by check_for_quit
\* ------------------------------------------------------------------------
\* the bytes standard input still holds
Unread ==
    {tty[j].id : j \in 1..Len(tty)} \cup {pybuf[j].id : j \in 1..Len(pybuf)}

\* the bytes the get_key calls of the last check_for_quit read first
ReadByQuitCheck == {quitlog.calls[j].id : j \in 1..Len(quitlog.calls)}

\* check_for_quit answered false on a key that is no part of the phrase
Diverged ==
    /\ QuitReturned
    /\ ~quitret
    /\ Len(quitlog.calls) >= 1
    /\ ~ProperPrefixOfQuit(BufferAfter(quitlog.calls, Len(quitlog.calls)))

\* what check_for_quit has read is not on the terminal any more
Swallowed ==
    /\ ReadByQuitCheck \cap Unread = {}
    /\ KeysOf(quitlog.calls) \subseteq returned

\* get_key hands a key to the session loop
KeyDelivered ==
    /\ kpc' = "have_key"
    /\ <<tty', pybuf'>> # <<tty, pybuf>>
    /\ ret' \notin {None, Raised}

\* a key handed to the session loop was never read before, by the loop or
\* by check_for_quit
DeliveredOnce ==
    KeyDelivered =>
        \E id \in 1..Len(input) :
            /\ id \notin returned
            /\ returned' = returned \cup {id}
            /\ input[id].ch = ret'

\* C36: a key read inside check_for_quit, the key that makes the buffer
\* diverge from "quit" included, is swallowed: it does not stay on the
\* terminal and is never handed to the session loop, so it cannot be acted
\* on as a command
C36_QuitKeysSwallowed == []Swallowed /\ [][DeliveredOnce]_vars

\* C36 witness: q was followed by x, check_for_quit read the x and answered
\* false, and the session loop has got the key typed after the x
C36_Witness ==
    /\ Diverged
    /\ quitlog.calls[1].ret = KEY_x
    /\ kpc = "have_key"
    /\ ret \in Recognized
    /\ Cardinality(returned) = 3

\* ------------------------------------------------------------------------
\* Spacing of repeats in the main loop
\* ------------------------------------------------------------------------
\* the main loop presents a repeat
RepeatInMain == pc \in {"question", "answer"} /\ needed_correct >= 1

\* C37: an item for which a repeat was scheduled at position p is not
\* presented again by the main loop before position p + 6: at least 5
\* presentations of other items lie between the judgment and the item's
\* next presentation by the main loop
C37_MainSpacing ==
    RepeatInMain =>
        /\ lastAt[word] # NoDue
        /\ position >= lastAt[word] + 6

\* C37 witness: an item that was answered correctly on streak 2 is on
\* screen again at the earliest position, six after that judgment
C37_Witness ==
    /\ pc = "question"
    /\ needed_correct = 1
    /\ position = lastAt[word] + 6
    /\ queue # <<>>

\* ------------------------------------------------------------------------
\* Missed items that share a key
\* ------------------------------------------------------------------------
\* w was judged incorrect and has not been judged since: it was not
\* presented again after its last miss
NotSeenSinceMiss(w) == tally[w] = 0

\* two distinct deck items with the same key, both judged incorrect
BothMissed(a, b) ==
    /\ a # b
    /\ front[a] = front[b]
    /\ tally[a] # NoMiss
    /\ tally[b] # NoMiss

\* C38 as claimed: if two distinct deck items have the same front and both
\* are judged incorrect, each of the two is presented again before the
\* session completes naturally
C38_MissedSurviveSharedFronts ==
    pc = "complete" =>
        \A a, b \in Items :
            BothMissed(a, b) => ~NotSeenSinceMiss(a) /\ ~NotSeenSinceMiss(b)

\* ------------------------------------------------------------------------
\* check_for_quit on a key that does not start the phrase
\* ------------------------------------------------------------------------
\* the key in hand is None or a key other than q and Q
NotQuitKey(key) == key = None \/ lower(key) # KEY_q

\* a step that is one whole call of check_for_quit on the key in hand
QuitCheckStep == kpc = "have_key" /\ kpc' # "have_key" /\ ret' = ret

\* the call returned False, made no get_key call, and left the terminal,
\* the buffer of sys.stdin, the clock and the set of delivered keys alone
ReturnedAtOnce ==
    /\ kpc' = "read"
    /\ quitret' = FALSE
    /\ quitlog'.st = "returned"
    /\ quitlog'.calls = <<>>
    /\ quitlog'.end = clock
    /\ UNCHANGED <<input, tty, pybuf, clock, returned>>

NotQuitKeyStep == QuitCheckStep /\ NotQuitKey(ret) => ReturnedAtOnce

\* C39: check_for_quit called with None or with a key other than q and Q
\* returns False at once: it makes no get_key call, reads no byte, and
\* the input stream is as the caller left it.
C39_NotQuitKeyReadsNothing == [][NotQuitKeyStep]_vars

\* check_for_quit has returned on a key other than q while a byte that had
\* already arrived was waiting, and that byte still waits
C39_Witness ==
    /\ kpc = "read"
    /\ quitlog.st = "returned"
    /\ quitlog.key # None
    /\ lower(quitlog.key) # KEY_q
    /\ quitlog.calls = <<>>
    /\ quitlog.entry.tty # <<>>
    /\ Head(quitlog.entry.tty).at <= quitlog.entry.clock
    /\ tty = quitlog.entry.tty
    /\ clock = quitlog.entry.clock

\* the same with None in hand: get_key did not recognize the byte it read
C39_WitnessNone ==
    /\ kpc = "read"
    /\ quitlog.st = "returned"
    /\ quitlog.key = None
    /\ quitlog.entry.tty # <<>>
    /\ tty = quitlog.entry.tty

====
